---- MODULE Spec2Model ----
(***************************************************************************)
(* Telemetry analytics core of the dashboard: the session filter handler,  *)
(* the stroke filter, and the travel / velocity / band engines it calls.   *)
(*                                                                         *)
(* Conventions.  Python lists are sequences; a Python index i is position  *)
(* i+1.  An Optional value is a sequence of length <= 1 (None == <<>>).    *)
(* Travel is in mm and velocity in mm/s, both integers.  A float that the  *)
(* code obtains by dividing is kept as the exact fraction [num, den].      *)
(***************************************************************************)
EXTENDS Integers, Sequences, FiniteSets, TLC

VARIABLES
    t,      \* the decoded Telemetry of the session (read-only)
    call,   \* the last invocation: its name and its arguments
    ret,    \* what the last invocation returned
    log,    \* the warnings the last invocation wrote to the application log
    db,         \* the ids that have a Session row, and a SessionHtml row
    debug,      \* current_app.debug
    id_queue,   \* the module-level queue of session ids, oldest first
    generator,  \* the html_generator thread: where it is, and its local id
    emitted,    \* the events sent through sio.emit, oldest first
    errors,     \* what html_generator wrote with app.logger.error
    puts,       \* history: every id put on id_queue, in the order of the puts
    created     \* history: every id passed to create_cache, in call order

\* the state behind the session routes and the background generator
server == <<db, debug, id_queue, generator, emitted, errors, puts, created>>

vars == <<t, call, ret, log, server>>

(***************************************************************************)
(* Bounds of the model and constants of the program.                       *)
(***************************************************************************)
MaxN == 3           \* samples per wheel: 0..MaxN
MaxStrokes == 2     \* strokes per wheel: 0..MaxStrokes

HST == 200          \* high-speed threshold handed to the velocity engines

\* travel.py, velocity.py and fft.py, and _filter_strokes in routes.py, hold
\* no call of a logger: what they compute writes nothing to the log
NoWarnings == <<>>

(***************************************************************************)
(* Generic helpers.                                                        *)
(***************************************************************************)
None == <<>>
Some(v) == <<v>>

Max2(a, b) == IF a >= b THEN a ELSE b
Min2(a, b) == IF a <= b THEN a ELSE b
Abs(x) == IF x < 0 THEN -x ELSE x

RECURSIVE SeqSum(_)
SeqSum(s) == IF s = <<>> THEN 0 ELSE Head(s) + SeqSum(Tail(s))

RECURSIVE SeqMax(_)
SeqMax(s) == IF Len(s) = 1 THEN s[1] ELSE Max2(Head(s), SeqMax(Tail(s)))

RECURSIVE SeqMin(_)
SeqMin(s) == IF Len(s) = 1 THEN s[1] ELSE Min2(Head(s), SeqMin(Tail(s)))

RECURSIVE Flatten(_)
Flatten(ss) == IF ss = <<>> THEN <<>> ELSE Head(ss) \o Flatten(Tail(ss))

\* Python's lst[a:b] for 0 <= a (bounds beyond the list are cut, as Python does)
Slice(s, a, b) == SubSeq(s, a + 1, Min2(b, Len(s)))

\* number of entries of s equal to v
CountEq(s, v) == Cardinality({i \in 1..Len(s) : s[i] = v})

\* int(x) of the float num/den (den > 0): truncation toward zero
Trunc(num, den) == IF num >= 0 THEN num \div den ELSE -((-num) \div den)

(***************************************************************************)
(* psst.py: the record model.                                              *)
(***************************************************************************)
StrokeStat(sumTravel, maxTravel, sumVelocity, maxVelocity, bottomouts, count) ==
    [SumTravel |-> sumTravel, MaxTravel |-> maxTravel,
     SumVelocity |-> sumVelocity, MaxVelocity |-> maxVelocity,
     Bottomouts |-> bottomouts, Count |-> count]

Stroke(start, end, stat, dt, dv, dfv) ==
    [Start |-> start, End |-> end, Stat |-> stat,
     DigitizedTravel |-> dt, DigitizedVelocity |-> dv,
     FineDigitizedVelocity |-> dfv]

\* Strokes.__post_init__ maps dataclass_from_dict over both lists; an element
\* that is already a Stroke (not a dict) is returned as it is.
Strokes(compressions, rebounds) ==
    [Compressions |-> compressions, Rebounds |-> rebounds]

Suspension(present, travel, velocity, strokes, tbins, vbins, vbinsFine) ==
    [Present |-> present, Travel |-> travel, Velocity |-> velocity,
     Strokes |-> strokes, TravelBins |-> tbins, VelocityBins |-> vbins,
     FineVelocityBins |-> vbinsFine]

Telemetry(sampleRate, front, rear, maxFrontTravel, maxRearTravel) ==
    [SampleRate |-> sampleRate, Front |-> front, Rear |-> rear,
     Linkage |-> [MaxFrontTravel |-> maxFrontTravel,
                  MaxRearTravel |-> maxRearTravel]]

(***************************************************************************)
(* routes.py: the stroke filter and the range selector.                    *)
(***************************************************************************)
\* the stroke filter keeping a stroke that touches a bound of the window
InWindow_Touching(s, start, end) == s.Start >= start /\ s.End <= end

\* the test of lines 46-48 (and 54-56) on one stroke
InWindow(s, start, end) == s.Start > start /\ s.End < end

\* a filter that re-bases the kept strokes to the window start
_filter_strokes_Rebased(strokes, start, end) ==
    IF start = None \/ end = None
    THEN strokes
    ELSE LET kept(list) ==
                 SelectSeq(list, LAMBDA c : InWindow(c, start[1], end[1]))
             rebased(list) ==
                 [i \in 1..Len(list) |->
                     [list[i] EXCEPT !.Start = @ - start[1],
                                     !.End = @ - start[1]]]
         IN  Strokes(rebased(kept(strokes.Compressions)),
                     rebased(kept(strokes.Rebounds)))

\* lines 39-59
_filter_strokes(strokes, start, end) ==
    IF start = None \/ end = None
    THEN strokes
    ELSE Strokes(
           SelectSeq(strokes.Compressions,
                     LAMBDA c : InWindow(c, start[1], end[1])),
           SelectSeq(strokes.Rebounds,
                     LAMBDA r : InWindow(r, start[1], end[1])))

\* A query argument: absent, not a number ("bad"), or the number halves/2 of
\* seconds.  int(float(s) * sample_rate), None when absent or on any exception.
ToIndex(arg, sample_rate) ==
    IF arg.kind = "num" THEN Some(Trunc(arg.halves * sample_rate, 2)) ELSE None

_extract_range(args, sample_rate) ==
    <<ToIndex(args.start, sample_rate), ToIndex(args.end, sample_rate)>>

\* a validation that lets the window end at the record count
_validate_range_EndInclusive(start, end, count) ==
    /\ start # None
    /\ end # None
    /\ start[1] >= 0
    /\ end[1] <= count
    /\ start[1] < end[1]

\* lines 74-75
_validate_range(start, end, count) ==
    /\ start # None
    /\ end # None
    /\ start[1] >= 0
    /\ end[1] < count
    /\ start[1] < end[1]

(***************************************************************************)
(* Exact fractions for the floats the engines compute.                     *)
(***************************************************************************)
Frac(num, den) == [num |-> num, den |-> den]

\* a / b * 100.0 for an integer or fraction a and an integer b # 0
PercentOf(a, b) == Frac(a.num * 100, a.den * b)

\* the value shown by an f"{x:.1f}" field, in tenths (x >= 0)
Tenths(x) == (20 * x.num + x.den) \div (2 * x.den)

RECURSIVE Insert(_, _)
Insert(x, s) ==
    IF s = <<>> THEN <<x>>
    ELSE IF x <= Head(s) THEN <<x>> \o s
    ELSE <<Head(s)>> \o Insert(x, Tail(s))

RECURSIVE Sorted(_)
Sorted(s) == IF s = <<>> THEN <<>> ELSE Insert(Head(s), Sorted(Tail(s)))

\* np.mean of a non-empty list
Mean(s) == Frac(SeqSum(s), Len(s))

\* np.percentile(s, 95) of a non-empty list (linear interpolation):
\* the virtual index is 0.95 * (n - 1) = 19 (n - 1) / 20
Percentile95(s) ==
    LET a == Sorted(s)
        n == Len(s)
        lo == (19 * (n - 1)) \div 20
        r == (19 * (n - 1)) % 20
        hi == Min2(lo + 1, n - 1)
    IN  Frac(20 * a[lo + 1] + r * (a[hi + 1] - a[lo + 1]), 20)

(***************************************************************************)
(* travel.py: the travel histogram engine.                                 *)
(***************************************************************************)
HISTOGRAM_RANGE_MULTIPLIER_TRAVEL == Frac(13, 10)

to_percentage(value, max_value) ==
    IF max_value = 0 THEN Frac(0, 1) ELSE PercentOf(value, max_value)

\* (strokes.Compressions or []) + (strokes.Rebounds or [])
AllStrokes(strokes) == strokes.Compressions \o strokes.Rebounds

HistLen(bins_mm) == IF Len(bins_mm) > 1 THEN Len(bins_mm) - 1 ELSE 0

\* the travel engine counting an index outside the histogram in the nearest
\* edge bucket
TravelBucket_Clamped(d_idx, hist_len) ==
    <<IF d_idx < 0 THEN 0
      ELSE IF d_idx >= hist_len THEN hist_len - 1 ELSE d_idx>>

\* lines 39-40: the bucket a digitized index is counted in, None when the
\* guard 0 <= d_idx < hist_len leaves it out
TravelBucket(d_idx, hist_len) ==
    IF 0 <= d_idx /\ d_idx < hist_len THEN Some(d_idx) ELSE None

\* lines 34-40: bucket b (position b+1) counts the digitized-travel entries
\* of all strokes that land in it
TravelCounts(strokes, hist_len) ==
    LET entries == Flatten([i \in 1..Len(AllStrokes(strokes)) |->
                               AllStrokes(strokes)[i].DigitizedTravel])
    IN  [b \in 1..hist_len |->
            Cardinality({i \in 1..Len(entries) :
                            TravelBucket(entries[i], hist_len) = Some(b - 1)})]

\* line 37, inside the guard of line 34
TravelTotalCount(strokes, hist_len) ==
    IF hist_len > 0
    THEN SeqSum([i \in 1..Len(AllStrokes(strokes)) |->
                    AllStrokes(strokes)[i].Stat.Count])
    ELSE 0

_travel_histogram_data(strokes, bins_mm, theoretical_max_travel_mm) ==
    LET hist_len == HistLen(bins_mm)
        hist == TravelCounts(strokes, hist_len)
        total_count == TravelTotalCount(strokes, hist_len)
        m == theoretical_max_travel_mm
        withMids == hist_len > 0 /\ m > 0
        diff(i) == bins_mm[i + 1] - bins_mm[i]
    IN  [travel_mids_mm |->
            IF withMids
            THEN [i \in 1..hist_len |-> Frac(bins_mm[i] + bins_mm[i + 1], 2)]
            ELSE <<>>,
         travel_mids_perc |->
            IF withMids
            THEN [i \in 1..hist_len |->
                     PercentOf(Frac(bins_mm[i] + bins_mm[i + 1], 2), m)]
            ELSE <<>>,
         time_perc |->
            IF total_count > 0
            THEN [b \in 1..hist_len |-> Frac(100 * hist[b], total_count)]
            ELSE [b \in 1..hist_len |-> Frac(hist[b], 1)],
         \* max(full - 0.75, full * 0.1) with full = diff / m * 100
         bin_widths_perc |->
            IF withMids
            THEN [i \in 1..hist_len |->
                     Frac(Max2(400 * diff(i) - 3 * m, 40 * diff(i)), 4 * m)]
            ELSE <<>>]

\* the travel engine reading the selection at the strokes' absolute indices
StrokeTravelValues_Absolute(s, travel_data, selection_start_abs_index) ==
    LET eff_rel_start == Max2(0, s.Start)
        eff_rel_end == Min2(Len(travel_data), s.End + 1)
    IN  IF eff_rel_start < eff_rel_end
        THEN Slice(travel_data, eff_rel_start, eff_rel_end)
        ELSE <<>>

\* lines 75-86: the travel samples of one stroke, in the index space of the
\* selection
StrokeTravelValues(s, travel_data, selection_start_abs_index) ==
    LET rel_stroke_start == s.Start - selection_start_abs_index
        rel_stroke_end == s.End - selection_start_abs_index
        eff_rel_start == Max2(0, rel_stroke_start)
        eff_rel_end == Min2(Len(travel_data), rel_stroke_end + 1)
    IN  IF eff_rel_start < eff_rel_end
        THEN Slice(travel_data, eff_rel_start, eff_rel_end)
        ELSE <<>>

\* bottomouts_count is initialised at line 73 and never added to
SelectionBottomouts(selected_strokes) == 0

_selection_travel_stats(selected_strokes, travel_data, linkage_max_travel_mm, selection_start_abs_index) ==
    LET all == AllStrokes(selected_strokes)
        travel_values ==
            Flatten([i \in 1..Len(all) |->
                        StrokeTravelValues(all[i], travel_data,
                                           selection_start_abs_index)])
        zero == Frac(0, 1)
    IN  IF travel_values = <<>>
        THEN [avg_mm |-> zero, mx_mm |-> zero, p95_mm |-> zero,
              bottomouts |-> 0,
              avg_perc |-> zero, mx_perc |-> zero, p95_perc |-> zero]
        ELSE LET avg_mm == Mean(travel_values)
                 mx_mm == Frac(SeqMax(travel_values), 1)
                 p95_mm == Percentile95(travel_values)
             IN  [avg_mm |-> avg_mm, mx_mm |-> mx_mm, p95_mm |-> p95_mm,
                  bottomouts |-> SelectionBottomouts(selected_strokes),
                  avg_perc |-> to_percentage(avg_mm, linkage_max_travel_mm),
                  mx_perc |-> to_percentage(mx_mm, linkage_max_travel_mm),
                  p95_perc |-> to_percentage(p95_mm, linkage_max_travel_mm)]

update_travel_histogram(selected_strokes, travel_data, bins_mm, linkage_max_travel_mm, selection_start_abs_index) ==
    LET hist_data_selected ==
            _travel_histogram_data(selected_strokes, bins_mm,
                                   linkage_max_travel_mm)
        tp == hist_data_selected.time_perc
        \* all entries of time_perc have one denominator
        maxNum == IF tp = <<>> THEN 0
                  ELSE SeqMax([b \in 1..Len(tp) |-> tp[b].num])
        current_max_time_perc ==
            IF tp = <<>> THEN Frac(0, 1) ELSE Frac(maxNum, tp[1].den)
        base == IF maxNum > 0 THEN current_max_time_perc ELSE Frac(1, 1)
        st == _selection_travel_stats(selected_strokes, travel_data,
                                      linkage_max_travel_mm,
                                      selection_start_abs_index)
    IN  [source_data |->
            [travel_mids_perc |-> hist_data_selected.travel_mids_perc,
             time_perc |-> tp,
             bar_widths_perc |-> hist_data_selected.bin_widths_perc],
         range_end |-> Frac(HISTOGRAM_RANGE_MULTIPLIER_TRAVEL.num * base.num,
                            HISTOGRAM_RANGE_MULTIPLIER_TRAVEL.den * base.den),
         avg |-> st.avg_perc, mx |-> st.mx_perc, p95 |-> st.p95_perc,
         \* the four lines of the text box: the numbers they print
         stats_textbox_text |->
            [avg |-> <<Tenths(st.avg_perc), Tenths(st.avg_mm)>>,
             p95 |-> <<Tenths(st.p95_perc), Tenths(st.p95_mm)>>,
             mx |-> <<Tenths(st.mx_perc), Tenths(st.mx_mm)>>,
             bottomouts |-> st.bottomouts]]

(***************************************************************************)
(* velocity.py: the velocity histogram engine.                             *)
(***************************************************************************)
TRAVEL_BINS_FOR_VELOCITY_HISTOGRAM == 10
NUM_POINTS == 100

HISTOGRAM_RANGE_MULTIPLIER_VELOCITY == Frac(3, 2)

\* vbins[1] - vbins[0] if vbins and len(vbins) > 1 else 1.0
BinStep(bins) == IF Len(bins) > 1 THEN bins[2] - bins[1] ELSE 1

\* lines 211-212
HistShape(bins) == IF Len(bins) > 1 THEN Len(bins) - 1 ELSE 1

\* lines 204-209
NumTravelBins(tbins) ==
    IF Len(tbins) <= 1 THEN 1 ELSE TRAVEL_BINS_FOR_VELOCITY_HISTOGRAM

Divider(tbins) ==
    IF Len(tbins) <= 1 THEN 1
    ELSE Max2(1, (Len(tbins) - 1) \div TRAVEL_BINS_FOR_VELOCITY_HISTOGRAM)

\* the velocity engine using a digitized index as it is stored
Clamp_Unclamped(idx, size) == idx

\* min(max(0, idx), size - 1), lines 232, 236, 241
Clamp(idx, size) == Min2(Max2(0, idx), size - 1)

\* line 232: the coarse travel bucket of a digitized-travel index
CoarseTravelBucket(tbin_idx_val, tbins) ==
    Clamp(tbin_idx_val \div Divider(tbins), NumTravelBins(tbins))

\* line 236
VelocityBucket(vbin_idx_val, hist_shape_v) == Clamp(vbin_idx_val, hist_shape_v)

\* lines 224-228: the samples of the strokes the loop visits, as triples of
\* digitized indices <<travel, velocity, fine velocity>>
CountedSamples(strokes) ==
    LET all == AllStrokes(strokes)
        of(s) ==
            IF /\ s.Stat.Count > 0
               /\ s.DigitizedTravel # <<>>
               /\ s.DigitizedVelocity # <<>>
               /\ s.FineDigitizedVelocity # <<>>
            THEN LET iter_len ==
                         Min2(Min2(s.Stat.Count, Len(s.DigitizedTravel)),
                              Min2(Len(s.DigitizedVelocity),
                                   Len(s.FineDigitizedVelocity)))
                 IN  [i \in 1..iter_len |->
                         <<s.DigitizedTravel[i], s.DigitizedVelocity[i],
                           s.FineDigitizedVelocity[i]>>]
            ELSE <<>>
    IN  Flatten([i \in 1..Len(all) |-> of(all[i])])

\* lines 224-225
VelocityTotalCount(strokes) ==
    LET all == AllStrokes(strokes)
    IN  SeqSum([i \in 1..Len(all) |->
                   IF all[i].Stat.Count > 0 THEN all[i].Stat.Count ELSE 0])

\* a band that takes in the bin centers on its two limits
InLowSpeedBand_Inclusive(vbin_fine_idx, hst, vbins_fine) ==
    /\ vbins_fine # <<>>
    /\ 0 <= vbin_fine_idx
    /\ vbin_fine_idx < Len(vbins_fine) - 1
    /\ LET twice == vbins_fine[vbin_fine_idx + 1] + vbins_fine[vbin_fine_idx + 2]
           lim == 2 * hst + BinStep(vbins_fine)
       IN  -lim <= twice /\ twice <= lim

\* lines 243-245: whether a sample of fine bucket vbin_fine_idx is counted in
\* the low-speed histogram
InLowSpeedBand(vbin_fine_idx, hst, vbins_fine) ==
    /\ vbins_fine # <<>>
    /\ 0 <= vbin_fine_idx
    /\ vbin_fine_idx < Len(vbins_fine) - 1
    /\ LET twice == vbins_fine[vbin_fine_idx + 1] + vbins_fine[vbin_fine_idx + 2]
           lim == 2 * hst + BinStep(vbins_fine)
       IN  -lim < twice /\ twice < lim

\* lines 247-249
Normalized(count, total_count) ==
    IF total_count > 0 THEN Frac(100 * count, total_count) ELSE Frac(count, 1)

_velocity_histogram_data(strokes, hst, tbins, vbins, vbins_fine) ==
    LET step == BinStep(vbins)
        step_lowspeed == BinStep(vbins_fine)
        rows == NumTravelBins(tbins)
        hist_shape_v == HistShape(vbins)
        hist_shape_v_fine == HistShape(vbins_fine)
        smp == CountedSamples(strokes)
        total_count == VelocityTotalCount(strokes)
        cell(r, c) ==
            Cardinality({i \in 1..Len(smp) :
                /\ CoarseTravelBucket(smp[i][1], tbins) = r
                /\ VelocityBucket(smp[i][2], hist_shape_v) = c})
        cellLow(r, c) ==
            Cardinality({i \in 1..Len(smp) :
                /\ CoarseTravelBucket(smp[i][1], tbins) = r
                /\ Clamp(smp[i][3], hist_shape_v_fine) = c
                /\ InLowSpeedBand(c, hst, vbins_fine)})
        hist == [r \in 1..rows |-> [c \in 1..hist_shape_v |->
                    Normalized(cell(r - 1, c - 1), total_count)]]
        hist_lowspeed == [r \in 1..rows |-> [c \in 1..hist_shape_v_fine |->
                    Normalized(cellLow(r - 1, c - 1), total_count)]]
        \* np.max(np.sum(hist, axis=0)): every cell has one denominator
        colMax(h, n) ==
            SeqMax([c \in 1..n |-> SeqSum([r \in 1..rows |-> h[r][c].num])])
        den == IF total_count > 0 THEN total_count ELSE 1
        range(h, n) ==
            IF colMax(h, n) > 0
            THEN Frac(HISTOGRAM_RANGE_MULTIPLIER_VELOCITY.num * colMax(h, n),
                      HISTOGRAM_RANGE_MULTIPLIER_VELOCITY.den * den)
            ELSE Frac(1, 1)
        mids(bins) ==
            IF Len(bins) > 1
            THEN [i \in 1..(Len(bins) - 1) |->
                     Frac(2 * bins[i] + BinStep(bins), 2)]
            ELSE <<Frac(0, 1)>>
    IN  [sd |-> [rows |-> hist, y |-> mids(vbins)],
         sd_lowspeed |-> [rows |-> hist_lowspeed, y |-> mids(vbins_fine)],
         mx |-> range(hist, hist_shape_v),
         mx_lowspeed |-> range(hist_lowspeed, hist_shape_v_fine)]

\* lines 473-475 and 489-491: the velocity samples of one stroke, none when
\* its bounds fall outside the series
StrokeVelocities(s, velocity_data) ==
    IF /\ velocity_data # <<>>
       /\ 0 <= s.Start /\ s.Start < Len(velocity_data)
       /\ 0 <= s.End /\ s.End < Len(velocity_data)
       /\ s.Start <= s.End
    THEN Slice(velocity_data, s.Start, s.End + 1)
    ELSE <<>>

\* lines 464-478 for the compressions (most positive MaxVelocity, percentile
\* of the positive samples) and 480-495 for the rebounds (most negative
\* MaxVelocity, negated percentile of the magnitudes of the negative samples)
ClassStats(list, velocity_data, rebound) ==
    LET n == Len(list)
        sum == SeqSum([i \in 1..n |-> list[i].Stat.SumVelocity])
        count == SeqSum([i \in 1..n |-> list[i].Stat.Count])
        maxes == [i \in 1..n |-> list[i].Stat.MaxVelocity]
        pts == Flatten([i \in 1..n |-> StrokeVelocities(list[i], velocity_data)])
        kept == IF rebound
                THEN LET neg == SelectSeq(pts, LAMBDA v : v < 0)
                     IN  [i \in 1..Len(neg) |-> Abs(neg[i])]
                ELSE SelectSeq(pts, LAMBDA v : v > 0)
        p95 == Percentile95(kept)
    IN  [avg |-> IF count > 0 THEN Some(Frac(sum, count)) ELSE None,
         max |-> IF n = 0 THEN None
                 ELSE Some(IF rebound THEN SeqMin(maxes) ELSE SeqMax(maxes)),
         p95 |-> IF kept = <<>> THEN None
                 ELSE Some(IF rebound THEN Frac(-p95.num, p95.den) ELSE p95)]

_velocity_stats(strokes, all_velocities_data) ==
    LET c == ClassStats(strokes.Compressions, all_velocities_data, FALSE)
        r == ClassStats(strokes.Rebounds, all_velocities_data, TRUE)
    IN  [avgr |-> r.avg, maxr |-> r.max, avgc |-> c.avg, maxc |-> c.max,
         p95r |-> r.p95, p95c |-> c.p95]

\* lines 165-172: the in-stroke velocity samples the curve is fitted to
StrokeVelocityPoints(strokes, velocity_data) ==
    LET all == AllStrokes(strokes)
        of(s) == IF s.Start < 0 \/ s.End >= Len(velocity_data) \/ s.Start > s.End
                 THEN <<>>
                 ELSE Slice(velocity_data, s.Start, s.End + 1)
    IN  IF velocity_data # <<>>
        THEN Flatten([i \in 1..Len(all) |-> of(all[i])])
        ELSE <<>>

\* line 175 evaluates [].tolist(): a list has no tolist, so the call raises
\* AttributeError when there is no in-stroke sample
EmptyCurve == [raised |-> TRUE]

\* The curve is kept as what determines it: the number of points, their
\* range, the fitted mean and variance (norm.fit), and the scale.
_normal_distribution_data(strokes, velocity_data, step) ==
    LET pts == StrokeVelocityPoints(strokes, velocity_data)
        n == Len(pts)
        min_vel == SeqMin(pts)
        max_vel == SeqMax(pts)
        mu == Mean(pts)
        var == Frac(n * SeqSum([i \in 1..n |-> pts[i] * pts[i]])
                      - SeqSum(pts) * SeqSum(pts), n * n)
    IN  IF pts = <<>> THEN EmptyCurve
        ELSE IF min_vel = max_vel
        THEN [raised |-> FALSE, points |-> 1, lo |-> min_vel, hi |-> min_vel,
              mu |-> mu, var |-> var, scale |-> step * 100]
        ELSE [raised |-> FALSE, points |-> NUM_POINTS, lo |-> min_vel,
              hi |-> max_vel, mu |-> mu, var |-> var, scale |-> step * 100]

update_velocity_histogram(strokes, velocity_data, tbins, vbins, vbins_fine, high_speed_threshold) ==
    LET h == _velocity_histogram_data(strokes, high_speed_threshold, tbins,
                                      vbins, vbins_fine)
        st == _velocity_stats(strokes, velocity_data)
        normal_data == _normal_distribution_data(strokes, velocity_data,
                                                 BinStep(vbins))
        normal_data_lowspeed ==
            _normal_distribution_data(strokes, velocity_data,
                                      BinStep(vbins_fine))
        atLeastOne(x) == IF x.num >= x.den THEN x ELSE Frac(1, 1)
    IN  IF normal_data.raised \/ normal_data_lowspeed.raised
        THEN [raised |-> TRUE]
        ELSE [raised |-> FALSE,
              data |-> h.sd, mx |-> atLeastOne(h.mx),
              data_lowspeed |-> h.sd_lowspeed,
              mx_lowspeed |-> atLeastOne(h.mx_lowspeed),
              normal_data |-> normal_data,
              normal_data_lowspeed |-> normal_data_lowspeed,
              stats |-> st]

(***************************************************************************)
(* velocity.py: the velocity band engine.                                  *)
(***************************************************************************)
\* lines 514-517 and 519-520: the samples of a stroke the loop counts
BandVelocities(s, velocity_np) ==
    IF s.Start <= s.End /\ s.Start >= 0 /\ s.End < Len(velocity_np)
    THEN Slice(velocity_np, s.Start, s.End + 1)
    ELSE <<>>

\* the band engine comparing the magnitude of a sample with the threshold
Band_ByMagnitude(v, max_velocity, high_speed_threshold) ==
    IF max_velocity >= 0
    THEN IF Abs(v) < high_speed_threshold THEN "lsc" ELSE "hsc"
    ELSE IF Abs(v) < high_speed_threshold THEN "lsr" ELSE "hsr"

\* lines 525-534: the band of one sample of a stroke
Band(v, max_velocity, high_speed_threshold) ==
    IF max_velocity >= 0
    THEN IF v < high_speed_threshold THEN "lsc" ELSE "hsc"
    ELSE IF v > -high_speed_threshold THEN "lsr" ELSE "hsr"

\* the band engine dividing by the length of the whole velocity series
TotalPointsInStrokes_AllSamples(strokes, velocity_np) == Len(velocity_np)

\* lines 522-523: the samples of all visited strokes
TotalPointsInStrokes(strokes, velocity_np) ==
    SeqSum([i \in 1..Len(AllStrokes(strokes)) |->
               Len(BandVelocities(AllStrokes(strokes)[i], velocity_np))])

_velocity_band_stats(strokes, velocity_data, high_speed_threshold) ==
    LET all == AllStrokes(strokes)
        bands == Flatten([i \in 1..Len(all) |->
                    LET sv == BandVelocities(all[i], velocity_data)
                    IN  [j \in 1..Len(sv) |->
                            Band(sv[j], all[i].Stat.MaxVelocity,
                                 high_speed_threshold)]])
        total_points_in_strokes ==
            TotalPointsInStrokes(strokes, velocity_data)
        perc(b) == IF velocity_data = <<>> \/ total_points_in_strokes = 0
                   THEN Frac(0, 1)
                   ELSE Frac(100 * CountEq(bands, b), total_points_in_strokes)
    IN  [hsr |-> perc("hsr"), lsr |-> perc("lsr"),
         lsc |-> perc("lsc"), hsc |-> perc("hsc")]

update_velocity_band_stats(strokes, velocity_data, high_speed_threshold) ==
    LET b == _velocity_band_stats(strokes, velocity_data, high_speed_threshold)
        \* a label is shown when its band exceeds the threshold 0.01
        shown(x) == 100 * x.num > x.den
        \* the four bands have one denominator when any is non-zero
        sum == IF b.hsc.den = b.lsc.den /\ b.lsc.den = b.lsr.den
                  /\ b.lsr.den = b.hsr.den
               THEN Frac(b.hsc.num + b.lsc.num + b.lsr.num + b.hsr.num,
                         b.hsc.den)
               ELSE Frac(0, 1)
    IN  [data |-> [hsc |-> b.hsc, lsc |-> b.lsc, lsr |-> b.lsr, hsr |-> b.hsr],
         labels |-> [hsc |-> shown(b.hsc), lsc |-> shown(b.lsc),
                     lsr |-> shown(b.lsr), hsr |-> shown(b.hsr)],
         y_range_end |-> IF sum.num >= sum.den THEN sum ELSE Frac(1, 1)]

(***************************************************************************)
(* balance.py: the balance engine.                                         *)
(***************************************************************************)
\* a <= b for fractions with positive denominators
FracLE(a, b) == a.num * b.den <= b.num * a.den

RECURSIVE InsertPair(_, _)
InsertPair(x, s) ==
    IF s = <<>> THEN <<x>>
    ELSE IF FracLE(Head(s).t, x.t) THEN <<Head(s)>> \o InsertPair(x, Tail(s))
    ELSE <<x>> \o s

\* t_np.argsort() applied to both arrays: the pairs in ascending travel
\* order, equal travels in their input order
RECURSIVE SortPairs(_)
SortPairs(s) ==
    IF s = <<>> THEN <<>>
    ELSE InsertPair(s[Len(s)], SortPairs(SubSeq(s, 1, Len(s) - 1)))

\* the balance engine dividing by travel_max whatever it is; a division by
\* 0 yields no percentage
_travel_velocity_Unguarded(strokes, travel_max) ==
    IF travel_max = 0 THEN <<>>
    ELSE SortPairs([i \in 1..Len(strokes) |->
             [t |-> Frac(strokes[i].Stat.MaxTravel * 100, travel_max),
              v |-> strokes[i].Stat.MaxVelocity]])

\* the balance engine sorting the travel array alone: the velocities stay in
\* the order of the strokes
_travel_velocity_TravelSortedAlone(strokes, travel_max) ==
    LET sorted == SortPairs([i \in 1..Len(strokes) |->
                     [t |-> IF travel_max = 0 THEN Frac(0, 1)
                            ELSE Frac(strokes[i].Stat.MaxTravel * 100,
                                      travel_max),
                      v |-> strokes[i].Stat.MaxVelocity]])
    IN  [i \in 1..Len(strokes) |->
            [t |-> sorted[i].t, v |-> strokes[i].Stat.MaxVelocity]]

\* lines 12-31
_travel_velocity(strokes, travel_max) ==
    SortPairs([i \in 1..Len(strokes) |->
        [t |-> IF travel_max = 0 THEN Frac(0, 1)
               ELSE Frac(strokes[i].Stat.MaxTravel * 100, travel_max),
         v |-> strokes[i].Stat.MaxVelocity]])

\* the balance engine leaving the trend of a single point empty
Trend_EmptyBelowTwo(pairs) ==
    IF Len(pairs) >= 2
    THEN [i \in 1..Len(pairs) |-> [nan |-> FALSE, at |-> pairs[i].t]]
    ELSE <<>>

\* lines 40-49 (51-60): the trend of one wheel.  A fitted value is kept as
\* the point it is evaluated at; the line is np.polyfit of the wheel's pairs.
Trend(pairs) ==
    [i \in 1..Len(pairs) |->
        IF Len(pairs) >= 2
        THEN [nan |-> FALSE, at |-> pairs[i].t]
        ELSE [nan |-> TRUE, at |-> pairs[i].t]]

WheelBalance(strokes, travel_max) ==
    LET pairs == _travel_velocity(strokes, travel_max)
    IN  [travel |-> [i \in 1..Len(pairs) |-> pairs[i].t],
         velocity |-> [i \in 1..Len(pairs) |-> pairs[i].v],
         trend |-> Trend(pairs)]

\* lines 13-17: the warning of one wheel; an empty stroke list returns at
\* line 14, before travel_max is looked at
_travel_velocity_log(strokes, travel_max) ==
    IF strokes # <<>> /\ travel_max = 0
    THEN <<"_travel_velocity: travel_max is 0">>
    ELSE <<>>

\* lines 37-38: the front wheel is converted first
update_balance_log(front_strokes, rear_strokes, front_max, rear_max) ==
    _travel_velocity_log(front_strokes, front_max)
        \o _travel_velocity_log(rear_strokes, rear_max)

_balance_data(front_strokes, rear_strokes, front_max, rear_max) ==
    <<WheelBalance(front_strokes, front_max),
      WheelBalance(rear_strokes, rear_max)>>

\* the balance engine taking the range from the front wheel whenever it has
\* strokes
update_balance_FrontRange(front_strokes, rear_strokes, front_max, rear_max) ==
    LET d == _balance_data(front_strokes, rear_strokes, front_max, rear_max)
        ft == d[1].travel
        rt == d[2].travel
        last(x) == x[Len(x)]
        range_end_val ==
            IF ft # <<>> THEN last(ft)
            ELSE IF rt # <<>> THEN last(rt)
            ELSE Frac(100, 1)
    IN  [f_data |-> d[1], r_data |-> d[2],
         range_end |-> IF range_end_val.num <= 0 THEN Frac(100, 1)
                       ELSE range_end_val]

\* lines 137-160
update_balance(front_strokes, rear_strokes, front_max, rear_max) ==
    LET d == _balance_data(front_strokes, rear_strokes, front_max, rear_max)
        ft == d[1].travel
        rt == d[2].travel
        last(x) == x[Len(x)]
        range_end_val ==
            IF ft # <<>> /\ rt # <<>>
            THEN IF FracLE(last(ft), last(rt)) THEN last(rt) ELSE last(ft)
            ELSE IF ft # <<>> THEN last(ft)
            ELSE IF rt # <<>> THEN last(rt)
            ELSE Frac(100, 1)
    IN  [f_data |-> d[1], r_data |-> d[2],
         range_end |-> IF range_end_val.num <= 0 THEN Frac(100, 1)
                       ELSE range_end_val]

(***************************************************************************)
(* fft.py: the spectrum analyzer.  Frequencies are kept as their count     *)
(* and the last of them (bin k lies at k / (n * tick) Hz, the bins         *)
(* ascend), and the spectrum as what determines it: the transform, its     *)
(* length and the detrended series.                                        *)
(***************************************************************************)
BINS_PER_HZ == 40       \* 1 / TARGET_RESOLUTION
CUTOFF_FREQ == 10

\* rfftfreq computes bin k as the double k * (1.0 / (n * tick)), line 39 (as
\* does welch, line 45).  Whether that double lies above the exact
\* k / (n * tick), as IEEE 754 round-to-nearest gives it for the bins and
\* ticks used here: for tick = 1.0 / 249 the product 9960 * tick is the
\* double below 40, its reciprocal 0.025000000000000005, and bin 400 is
\* 10.000000000000002; for the other ticks the last kept bin is exact.
DoubleAboveExact(k, n, tick) ==
    k = 400 /\ n = 9960 /\ tick.num = 1 /\ tick.den = 249

\* bin k as rfftfreq returns it: the exact fraction and whether the double
\* is above it
FreqOf(k, n, tick) ==
    [num |-> k * tick.den, den |-> n * tick.num,
     above |-> DoubleAboveExact(k, n, tick)]

_fft_data(travel, tick) ==
    LET \* N_min_for_fft = ceil((1 / tick) / TARGET_RESOLUTION)
        n == -((-(BINS_PER_HZ * tick.den)) \div tick.num)
        \* bins 0..n/2 whose frequency is <= cutoff_freq + 1e-9, line 58:
        \* the bins are more than 1e-9 apart, so these are the bins whose
        \* exact frequency k * tick.den / (n * tick.num) is <= 10
        kept == Cardinality({k \in 0..(n \div 2) :
                    k * tick.den <= CUTOFF_FREQ * n * tick.num})
        balanced == [i \in 1..Len(travel) |->
                        Frac(Len(travel) * travel[i] - SeqSum(travel),
                             Len(travel))]
    IN  IF travel = <<>> \/ tick.num <= 0 \/ n <= 0
        THEN [freqs |-> [len |-> 0], spectrum |-> [len |-> 0]]
        ELSE [freqs |-> [len |-> kept, last |-> FreqOf(kept - 1, n, tick)],
              spectrum |-> [len |-> kept,
                            transform |-> IF Len(travel) < n THEN "rfft"
                                          ELSE "welch",
                            nfft |-> n,
                            series |-> balanced]]

update_fft(travel, tick) == _fft_data(travel, tick)

(***************************************************************************)
(* The decoded inputs.  The upstream decoder cuts the sample series into   *)
(* non-overlapping strokes; a stroke carries one digitized index per       *)
(* sample (array length = Stat.Count = End - Start + 1), and its           *)
(* Stat.MaxVelocity is the largest velocity of a compression and the       *)
(* most negative one of a rebound.                                         *)
(***************************************************************************)
Intervals(n) == {x \in (0..(n - 1)) \X (0..(n - 1)) : x[1] <= x[2]}

Disjoint(L) == \A x, y \in L : x = y \/ x[2] < y[1] \/ y[2] < x[1]

\* the stroke layouts of n samples: disjoint intervals, each a compression
\* ("c") or a rebound ("r")
Layouts(n) ==
    UNION {[L -> {"c", "r"}] :
              L \in {M \in SUBSET Intervals(n) :
                        Cardinality(M) <= MaxStrokes /\ Disjoint(M)}}

RECURSIVE OrderByStart(_)
OrderByStart(S) ==
    IF S = {} THEN <<>>
    ELSE LET m == CHOOSE x \in S : \A y \in S : x[1] <= y[1]
         IN  <<m>> \o OrderByStart(S \ {m})

\* smp: the per-sample series [travel, velocity, dt, dv, dfv, bo]
DecodedStroke(smp, a, b, dir) ==
    LET v == Slice(smp.velocity, a, b + 1)
        tr == Slice(smp.travel, a, b + 1)
    IN  Stroke(a, b,
               StrokeStat(SeqSum(tr), SeqMax(tr), SeqSum(v),
                          IF dir = "c" THEN SeqMax(v) ELSE SeqMin(v),
                          SeqSum(Slice(smp.bo, a, b + 1)), b - a + 1),
               Slice(smp.dt, a, b + 1), Slice(smp.dv, a, b + 1),
               Slice(smp.dfv, a, b + 1))

DecodedStrokes(smp, layout) ==
    LET of(dir) == OrderByStart({x \in DOMAIN layout : layout[x] = dir})
        list(dir) == [i \in 1..Len(of(dir)) |->
                         DecodedStroke(smp, of(dir)[i][1], of(dir)[i][2], dir)]
    IN  Strokes(list("c"), list("r"))

DecodedSuspension(smp, layout, tbins, vbins, vbinsFine) ==
    Suspension(TRUE, smp.travel, smp.velocity, DecodedStrokes(smp, layout),
               tbins, vbins, vbinsFine)

Absent == Suspension(FALSE, <<>>, <<>>, Strokes(<<>>, <<>>), <<>>, <<>>, <<>>)

\* Stroke invariant of the record model: a compression has MaxVelocity >= 0,
\* a rebound MaxVelocity < 0
SignsAgree(strokes) ==
    /\ \A i \in 1..Len(strokes.Compressions) :
          strokes.Compressions[i].Stat.MaxVelocity >= 0
    /\ \A i \in 1..Len(strokes.Rebounds) :
          strokes.Rebounds[i].Stat.MaxVelocity < 0

\* a velocity series that agrees with the layout: positive inside a
\* compression, negative inside a rebound, zero between strokes
LayoutVelocity(layout, n) ==
    [i \in 1..n |->
        IF \E x \in DOMAIN layout : x[1] <= i - 1 /\ i - 1 <= x[2]
        THEN LET x == CHOOSE y \in DOMAIN layout : y[1] <= i - 1 /\ i - 1 <= y[2]
             IN  IF layout[x] = "c" THEN 60 + i ELSE -(60 + i)
        ELSE 0]

Const(n, v) == [i \in 1..n |-> v]

TBins3 == <<0, 50, 100>>
VBins3 == <<-400, 0, 400>>
VBinsFine5 == <<-200, -100, 0, 100, 200>>

(***************************************************************************)
(* routes.py, filter, lines 164-171 (182-189 for the rear wheel): what the *)
(* stroke-based engines of one wheel are given for a validated range.      *)
(***************************************************************************)
SelectionInputs(suspension, start, end) ==
    IF start # None /\ end # None
    THEN [strokes |-> _filter_strokes(suspension.Strokes, start, end),
          travel |-> Slice(suspension.Travel, start[1], end[1]),
          selection_start |-> start[1]]
    ELSE [strokes |-> suspension.Strokes,
          travel |-> suspension.Travel,
          selection_start |-> 0]

\* the ranges _validate_range lets through for a record of count samples,
\* and no range at all
Ranges(count) ==
    {<<None, None>>} \cup
    {<<Some(a), Some(b)>> : a, b \in 0..(count - 1)}

ValidRanges(count) ==
    {r \in Ranges(count) :
        r[1] = None \/ _validate_range(r[1], r[2], count)}

_update_stroke_based(strokes, suspension, telemetry_linkage_max_travel, travel_data, selection_start_abs_index) ==
    [thist |-> update_travel_histogram(strokes, travel_data,
                                       suspension.TravelBins,
                                       telemetry_linkage_max_travel,
                                       selection_start_abs_index),
     vhist |-> update_velocity_histogram(strokes, suspension.Velocity,
                                         suspension.TravelBins,
                                         suspension.VelocityBins,
                                         suspension.FineVelocityBins, HST),
     vbands |-> update_velocity_band_stats(strokes, suspension.Velocity, HST),
     balance |-> None]

\* lines 164-180 (182-198): one wheel's entry of updated_data
WheelData(suspension, max_travel, in, tick) ==
    _update_stroke_based(in.strokes, suspension, max_travel,
                         in.travel, in.selection_start)
        @@ [fft |-> update_fft(in.travel, tick)]

WheelEntry(suspension, max_travel, start, end, tick) ==
    WheelData(suspension, max_travel,
              SelectionInputs(suspension, start, end), tick)

\* lines 200-216: the balance of the two wheels' selected strokes
BalanceEntry(tel, f_balance_strokes, r_balance_strokes) ==
    [compression |->
        update_balance(f_balance_strokes.Compressions,
                       r_balance_strokes.Compressions,
                       tel.Linkage.MaxFrontTravel,
                       tel.Linkage.MaxRearTravel),
     rebound |->
        update_balance(f_balance_strokes.Rebounds,
                       r_balance_strokes.Rebounds,
                       tel.Linkage.MaxFrontTravel,
                       tel.Linkage.MaxRearTravel)]

\* line 218, or the failure of the request when an engine raised
Response(tel, front, rear, balance) ==
    IF \/ tel.Front.Present /\ front.vhist.raised
       \/ tel.Rear.Present /\ rear.vhist.raised
    THEN [status |-> 500]
    ELSE [status |-> 200,
          front |-> IF tel.Front.Present THEN Some(front) ELSE None,
          rear |-> IF tel.Rear.Present THEN Some(rear) ELSE None,
          balance |-> IF tel.Front.Present /\ tel.Rear.Present
                      THEN Some(balance) ELSE None]

\* lines 158-218, with the range as validated by lines 153-156.  An
\* exception of an engine leaves the handler: the request fails.
FilterBody(tel, start, end) ==
    Response(tel,
             WheelEntry(tel.Front, tel.Linkage.MaxFrontTravel, start, end,
                        Frac(1, tel.SampleRate)),
             WheelEntry(tel.Rear, tel.Linkage.MaxRearTravel, start, end,
                        Frac(1, tel.SampleRate)),
             BalanceEntry(tel,
                          _filter_strokes(tel.Front.Strokes, start, end),
                          _filter_strokes(tel.Rear.Strokes, start, end)))

\* lines 153-156
SelectedRange(tel, args) ==
    LET r == _extract_range(args, tel.SampleRate)
        count == Len(IF tel.Front.Present THEN tel.Front.Travel
                     ELSE tel.Rear.Travel)
    IN  IF _validate_range(r[1], r[2], count) THEN r ELSE <<None, None>>

filter(tel, args) ==
    LET r == SelectedRange(tel, args)
    IN  FilterBody(tel, r[1], r[2])

\* what the two balance calls of lines 203-214 log, when the handler
\* reaches them
FilterBodyLog(tel, response, f_balance_strokes, r_balance_strokes) ==
    IF response.status = 200 /\ tel.Front.Present /\ tel.Rear.Present
    THEN update_balance_log(f_balance_strokes.Compressions,
                            r_balance_strokes.Compressions,
                            tel.Linkage.MaxFrontTravel,
                            tel.Linkage.MaxRearTravel)
         \o update_balance_log(f_balance_strokes.Rebounds,
                               r_balance_strokes.Rebounds,
                               tel.Linkage.MaxFrontTravel,
                               tel.Linkage.MaxRearTravel)
    ELSE NoWarnings

SelectionLog(tel, r) ==
    FilterBodyLog(tel, FilterBody(tel, r[1], r[2]),
                  _filter_strokes(tel.Front.Strokes, r[1], r[2]),
                  _filter_strokes(tel.Rear.Strokes, r[1], r[2]))

filter_log(tel, args) == SelectionLog(tel, SelectedRange(tel, args))


(***************************************************************************)
(* A worker handles one invocation at a time: it starts from no pending     *)
(* invocation, and what an invocation computed is discarded when it has     *)
(* returned.  Nothing but the Telemetry outlives an invocation.             *)
(***************************************************************************)
\* create_app under TESTING or DISABLE_HTML_GENERATOR: no generator thread is
\* started, and the invocations of the analytics core put nothing on id_queue
GeneratorDisabled ==
    /\ db = [Session |-> {}, SessionHtml |-> {}]
    /\ debug = FALSE
    /\ id_queue = <<>>
    /\ generator = [pc |-> "off", id_from_queue |-> <<>>]
    /\ emitted = <<>>
    /\ errors = <<>>
    /\ puts = <<>>
    /\ created = <<>>

Idle == call.op = "none"

Return ==
    /\ ~Idle
    /\ call' = [op |-> "none"]
    /\ ret' = <<>>
    /\ log' = <<>>
    /\ UNCHANGED <<t, server>>

(***************************************************************************)
(* The travel histogram engine on the front wheel, for the whole session   *)
(* or for a validated range.                                               *)
(***************************************************************************)
CallUpdateTravelHistogram ==
    \E r \in ValidRanges(Len(t.Front.Travel)) :
        LET in == SelectionInputs(t.Front, r[1], r[2])
        IN  /\ Idle
            /\ call' = [op |-> "update_travel_histogram",
                        start |-> r[1], end |-> r[2]]
            /\ ret' = update_travel_histogram(in.strokes, in.travel,
                                              t.Front.TravelBins,
                                              t.Linkage.MaxFrontTravel,
                                              in.selection_start)
            /\ log' = NoWarnings
            /\ UNCHANGED <<t, server>>

\* per-sample kinds of the travel family: travel (mm), digitized travel
\* index (-1 lies outside every bin array), bottom-out flag
TravelKinds ==
    {[travel |-> 10, dt |-> 0, bo |-> 0],
     [travel |-> 90, dt |-> 1, bo |-> 1],
     [travel |-> 0, dt |-> -1, bo |-> 0]}

TravelBinsChoices == {<<0>>, <<0, 100>>, TBins3}

TravelSamples(k, layout) ==
    [travel |-> [i \in 1..Len(k) |-> k[i].travel],
     velocity |-> LayoutVelocity(layout, Len(k)),
     dt |-> [i \in 1..Len(k) |-> k[i].dt],
     dv |-> Const(Len(k), 0),
     dfv |-> Const(Len(k), 0),
     bo |-> [i \in 1..Len(k) |-> k[i].bo]]

\* Linkage.MaxFrontTravel, Linkage.MaxRearTravel: a wheel with travel, and
\* one without
MaxTravelChoices == {0, 100}

InitTravel ==
    /\ \E n \in 0..MaxN :
         \E k \in [1..n -> TravelKinds] :
           \E layout \in Layouts(n) :
             \E tbins \in TravelBinsChoices :
               \E fmax \in MaxTravelChoices :
                 t = Telemetry(1,
                       DecodedSuspension(TravelSamples(k, layout), layout,
                                         tbins, VBins3, VBinsFine5),
                       Absent, fmax, 0)
    /\ call = [op |-> "none"]
    /\ ret = <<>>
    /\ log = <<>>
    /\ GeneratorDisabled

NextTravel == CallUpdateTravelHistogram \/ Return

SpecTravel == InitTravel /\ [][NextTravel]_vars

(***************************************************************************)
(* The session filter: GET /<id>/filter over a stored session, and the     *)
(* stroke filter pass on the front wheel's strokes.                        *)
(***************************************************************************)
ArgValues ==
    {[kind |-> "absent", halves |-> 0], [kind |-> "bad", halves |-> 0]}
    \cup {[kind |-> "num", halves |-> h] : h \in (-2)..(MaxN + 1)}

\* a handler that keeps the selected travel samples of the front wheel in
\* the Telemetry
Filter_StoringSelection ==
    \E a, b \in ArgValues :
        /\ Idle
        /\ call' = [op |-> "filter", args |-> [start |-> a, end |-> b]]
        /\ ret' = filter(t, [start |-> a, end |-> b])
        /\ log' = filter_log(t, [start |-> a, end |-> b])
        /\ t' = [t EXCEPT !.Front.Travel =
                    SelectionInputs(t.Front,
                        SelectedRange(t, [start |-> a, end |-> b])[1],
                        SelectedRange(t, [start |-> a, end |-> b])[2]).travel]
        /\ UNCHANGED server

\* lines 144-218
Filter ==
    \E a, b \in ArgValues :
        /\ Idle
        /\ call' = [op |-> "filter", args |-> [start |-> a, end |-> b]]
        /\ ret' = filter(t, [start |-> a, end |-> b])
        /\ log' = filter_log(t, [start |-> a, end |-> b])
        /\ UNCHANGED <<t, server>>

Bounds == {None} \cup {Some(i) : i \in (-1)..(MaxN + 1)}

\* lines 166 and 184: the filter applied to the strokes of one wheel
CallFilterStrokes ==
    \E start, end \in Bounds :
        \E wheel \in {"Front", "Rear"} :
            /\ Idle
            /\ call' = [op |-> "_filter_strokes", wheel |-> wheel,
                        start |-> start, end |-> end]
            /\ ret' = _filter_strokes(
                         IF wheel = "Front" THEN t.Front.Strokes
                         ELSE t.Rear.Strokes, start, end)
            /\ log' = NoWarnings
            /\ UNCHANGED <<t, server>>

\* the samples of the filter family: travel and digitized indices by
\* position, velocity by the stroke the sample lies in
FilterSamples(n, layout) ==
    [travel |-> [i \in 1..n |-> 10 * i],
     velocity |-> LayoutVelocity(layout, n),
     dt |-> [i \in 1..n |-> (i - 1) % 2],
     dv |-> [i \in 1..n |-> IF LayoutVelocity(layout, n)[i] >= 0 THEN 1 ELSE 0],
     dfv |-> [i \in 1..n |-> i % 4],
     bo |-> Const(n, 0)]

\* the same record read backwards, compressions and rebounds exchanged
Mirror(layout, n) ==
    [x \in {<<n - 1 - y[2], n - 1 - y[1]>> : y \in DOMAIN layout} |->
        IF layout[<<n - 1 - x[2], n - 1 - x[1]>>] = "c" THEN "r" ELSE "c"]

FilterWheel(n, layout) ==
    DecodedSuspension(FilterSamples(n, layout), layout,
                      TBins3, VBins3, VBinsFine5)

InitFilter ==
    /\ \E n \in 0..MaxN :
         \E layout \in Layouts(n) :
           \E rate \in {1, 2} :
             \E mode \in {"front", "rear", "both"} :
               t = Telemetry(rate,
                     IF mode = "rear" THEN Absent ELSE FilterWheel(n, layout),
                     IF mode = "front" THEN Absent
                     ELSE IF mode = "rear" THEN FilterWheel(n, layout)
                     ELSE FilterWheel(n, Mirror(layout, n)),
                     100, 80)
    /\ call = [op |-> "none"]
    /\ ret = <<>>
    /\ log = <<>>
    /\ GeneratorDisabled

NextFilter == Filter \/ CallFilterStrokes \/ Return

SpecFilter == InitFilter /\ [][NextFilter]_vars

\* the record count the handler validates a range against (line 154)
RecordCount == Len(IF t.Front.Present THEN t.Front.Travel ELSE t.Rear.Travel)

\* the converted bounds of the pending filter request are both present and
\* satisfy 0 <= start < end < N
RangeValid ==
    LET r == _extract_range(call.args, t.SampleRate)
    IN  /\ r[1] # None /\ r[2] # None
        /\ 0 <= r[1][1] /\ r[1][1] < r[2][1] /\ r[2][1] < RecordCount

\* C2: in the filter operation the selection is applied iff both converted
\* bounds are present and 0 <= start < end < N; in every other case no
\* error is raised and the response is the one of the same request over
\* the full range with no selection.
C2_InvalidRangeServedAsFullRange ==
    call.op = "filter" =>
        IF RangeValid
        THEN ret = FilterBody(t, _extract_range(call.args, t.SampleRate)[1],
                              _extract_range(call.args, t.SampleRate)[2])
        ELSE ret.status = 200 /\ ret = FilterBody(t, None, None)

\* a request with an invalid range over a session without strokes fails
\* as the request over the full range does
C2_Witness ==
    /\ call.op = "filter"
    /\ ~RangeValid
    /\ call.args.start.kind = "num" /\ call.args.end.kind = "num"
    /\ RecordCount > 0
    /\ ret.status = 500
    /\ ret = FilterBody(t, None, None)

\* C2, but for the failure of a request: the selection is applied iff the
\* range is valid, and the response to an invalid range is the response
\* over the full range
C2_SelectionAppliedIffValid ==
    call.op = "filter" =>
        IF RangeValid
        THEN ret = FilterBody(t, _extract_range(call.args, t.SampleRate)[1],
                              _extract_range(call.args, t.SampleRate)[2])
        ELSE ret = FilterBody(t, None, None)

\* the strokes of list that lie strictly inside (start, end), as positions
StrictlyInside(list, start, end) ==
    {i \in 1..Len(list) : list[i].Start > start /\ list[i].End < end}

\* out holds exactly the strokes of list at the positions keep, in the
\* order of list
IsSelection(out, list, keep) ==
    /\ Len(out) = Cardinality(keep)
    /\ \A i \in keep : \E j \in 1..Len(out) : out[j] = list[i]
    /\ \A j \in 1..Len(out) : \E i \in keep : out[j] = list[i]
    /\ \A j, k \in 1..Len(out) :
          j < k => \E i, m \in keep : i < m /\ list[i] = out[j] /\ list[m] = out[k]

\* the strokes a _filter_strokes invocation was given
FilterStrokesInput ==
    IF call.wheel = "Front" THEN t.Front.Strokes ELSE t.Rear.Strokes

\* C3: with both bounds present _filter_strokes returns, for compressions
\* and for rebounds apart, exactly the input strokes with Start > start and
\* End < end, in their original order; a stroke that overlaps the window or
\* touches a bound is left out.
C3_StrictContainment ==
    (call.op = "_filter_strokes" /\ call.start # None /\ call.end # None) =>
        /\ IsSelection(ret.Compressions, FilterStrokesInput.Compressions,
                       StrictlyInside(FilterStrokesInput.Compressions,
                                      call.start[1], call.end[1]))
        /\ IsSelection(ret.Rebounds, FilterStrokesInput.Rebounds,
                       StrictlyInside(FilterStrokesInput.Rebounds,
                                      call.start[1], call.end[1]))

\* one stroke is kept and another, touching a bound of the window, is not
C3_Witness ==
    /\ call.op = "_filter_strokes" /\ call.start # None /\ call.end # None
    /\ AllStrokes(ret) # <<>>
    /\ \E i \in 1..Len(AllStrokes(FilterStrokesInput)) :
          LET s == AllStrokes(FilterStrokesInput)[i]
          IN  /\ s.Start = call.start[1] \/ s.End = call.end[1]
              /\ \A j \in 1..Len(AllStrokes(ret)) : AllStrokes(ret)[j] # s

(***************************************************************************)
(* The travel histogram engine: what an invocation was given and what it   *)
(* returned.                                                               *)
(***************************************************************************)
TravelCall == call.op = "update_travel_histogram"

\* the strokes the travel invocation was given (routes.py, lines 164-171)
TravelCallStrokes ==
    AllStrokes(SelectionInputs(t.Front, call.start, call.end).strokes)

\* all digitized-travel entries of those strokes
TravelCallEntries ==
    Flatten([i \in 1..Len(TravelCallStrokes) |->
                TravelCallStrokes[i].DigitizedTravel])

\* the sum of Stat.Count over those strokes
TravelCallCount ==
    SeqSum([i \in 1..Len(TravelCallStrokes) |->
               TravelCallStrokes[i].Stat.Count])

\* C4: with non-empty TravelBins the per-bin percentages of the travel
\* histogram sum to 100 whenever the total sample count the engine
\* accumulated over the included strokes is positive, and are all zero when
\* it is zero.
C4_TimePercSumsTo100 ==
    (TravelCall /\ t.Front.TravelBins # <<>>) =>
        LET tp == ret.source_data.time_perc
            total == TravelTotalCount(
                         SelectionInputs(t.Front, call.start, call.end).strokes,
                         HistLen(t.Front.TravelBins))
        IN  IF total > 0
            THEN /\ \A b \in 1..Len(tp) : tp[b].den = total
                 /\ SeqSum([b \in 1..Len(tp) |-> tp[b].num]) = 100 * total
            ELSE \A b \in 1..Len(tp) : tp[b].num = 0

\* a positive total of which one sample at least is in no bucket
C4_Witness ==
    /\ TravelCall
    /\ Len(ret.source_data.time_perc) = 2
    /\ TravelCallCount > 0
    /\ LET tp == ret.source_data.time_perc
       IN  tp[1].num + tp[2].num < 100 * tp[1].den

\* C6: the bottom-out count the travel histogram engine reports for a
\* selection is the sum of Stat.Bottomouts over the compressions and
\* rebounds included in the selection.
C6_BottomoutsSummed ==
    TravelCall =>
        ret.stats_textbox_text.bottomouts =
            SeqSum([i \in 1..Len(TravelCallStrokes) |->
                       TravelCallStrokes[i].Stat.Bottomouts])

\* an included stroke bottomed out and the engine reports no bottom-out
C6_Witness ==
    /\ TravelCall
    /\ \E i \in 1..Len(TravelCallStrokes) :
          TravelCallStrokes[i].Stat.Bottomouts > 0
    /\ ret.stats_textbox_text.bottomouts = 0

\* C9: for every bucket b of the travel histogram, time_perc[b] is 100
\* times the number of DigitizedTravel entries equal to b over all
\* compressions and rebounds, divided by the sum of Stat.Count over those
\* strokes; when every entry equals one bucket b0, b0 holds 100 and every
\* other bucket 0.
C9_TimePercIsShareOfEntries ==
    TravelCall =>
        LET tp == ret.source_data.time_perc
        IN  /\ Len(tp) = HistLen(t.Front.TravelBins)
            /\ \A b \in 1..Len(tp) :
                  IF TravelCallCount > 0
                  THEN tp[b].num * TravelCallCount =
                          100 * CountEq(TravelCallEntries, b - 1) * tp[b].den
                  ELSE tp[b].num = 0
            /\ \A b0 \in 1..Len(tp) :
                  (/\ TravelCallEntries # <<>>
                   /\ \A i \in 1..Len(TravelCallEntries) :
                         TravelCallEntries[i] = b0 - 1)
                  => \A b \in 1..Len(tp) :
                        tp[b].num = IF b = b0 THEN 100 * tp[b].den ELSE 0

\* two strokes whose entries all lie in the second of two buckets
C9_Witness ==
    /\ TravelCall
    /\ Len(ret.source_data.time_perc) = 2
    /\ Len(TravelCallStrokes) = 2
    /\ \A i \in 1..Len(TravelCallEntries) : TravelCallEntries[i] = 1
    /\ ret.source_data.time_perc[1].num = 0
    /\ ret.source_data.time_perc[2].num = 100 * ret.source_data.time_perc[2].den

\* C10: in the travel histogram engine a digitized index outside the
\* bucket range (negative, or >= the number of buckets) is counted in the
\* nearest edge bucket.
C10_TravelIndexClamped ==
    (TravelCall /\ TravelCallCount > 0) =>
        LET tp == ret.source_data.time_perc
            edge(d) == IF d < 0 THEN 0
                       ELSE IF d >= Len(tp) THEN Len(tp) - 1 ELSE d
        IN  \A b \in 1..Len(tp) :
               tp[b].num * TravelCallCount =
                  100 * tp[b].den *
                     Cardinality({i \in 1..Len(TravelCallEntries) :
                                     edge(TravelCallEntries[i]) = b - 1})

\* a negative index of an included stroke that no bucket counts
C10_Witness ==
    /\ TravelCall
    /\ Len(ret.source_data.time_perc) = 2
    /\ TravelCallEntries = <<-1>>
    /\ \A b \in 1..2 : ret.source_data.time_perc[b].num = 0

\* C14: in the travel histogram engine, when the wheel's theoretical max
\* travel is 0, the call returns without error, its avg, max and p95
\* percent-of-max outputs are 0, its percentage arrays are zero-filled or
\* empty, and a warning is logged.
C14_ZeroMaxTravelWarned ==
    (TravelCall /\ t.Linkage.MaxFrontTravel = 0) =>
        /\ ret.avg.num = 0 /\ ret.mx.num = 0 /\ ret.p95.num = 0
        /\ ret.source_data.travel_mids_perc = <<>>
        /\ ret.source_data.bar_widths_perc = <<>>
        /\ log # <<>>

\* a wheel without travel whose selected stroke has travelled: the
\* percentages are 0 while the mean in mm is not, and nothing is logged
C14_Witness ==
    /\ TravelCall
    /\ t.Linkage.MaxFrontTravel = 0
    /\ TravelCallCount > 0
    /\ ret.stats_textbox_text.avg[2] > 0
    /\ ret.avg.num = 0 /\ ret.mx.num = 0 /\ ret.p95.num = 0
    /\ ret.source_data.travel_mids_perc = <<>>
    /\ ret.source_data.bar_widths_perc = <<>>
    /\ log = <<>>
    /\ GeneratorDisabled

(***************************************************************************)
(* The engines' entry points over the whole stored session of the front    *)
(* wheel (and of both wheels for the balance).                             *)
(***************************************************************************)
CallVelocityHistogramData ==
    /\ Idle
    /\ call' = [op |-> "_velocity_histogram_data"]
    /\ ret' = _velocity_histogram_data(t.Front.Strokes, HST,
                                       t.Front.TravelBins,
                                       t.Front.VelocityBins,
                                       t.Front.FineVelocityBins)
    /\ log' = NoWarnings
    /\ UNCHANGED <<t, server>>

CallUpdateVelocityHistogram ==
    /\ Idle
    /\ call' = [op |-> "update_velocity_histogram"]
    /\ ret' = update_velocity_histogram(t.Front.Strokes, t.Front.Velocity,
                                        t.Front.TravelBins,
                                        t.Front.VelocityBins,
                                        t.Front.FineVelocityBins, HST)
    /\ log' = NoWarnings
    /\ UNCHANGED <<t, server>>

CallUpdateVelocityBandStats ==
    /\ Idle
    /\ call' = [op |-> "update_velocity_band_stats"]
    /\ ret' = update_velocity_band_stats(t.Front.Strokes, t.Front.Velocity,
                                         HST)
    /\ log' = NoWarnings
    /\ UNCHANGED <<t, server>>

CallUpdateBalance ==
    \E class \in {"Compressions", "Rebounds"} :
        /\ Idle
        /\ call' = [op |-> "update_balance", class |-> class]
        /\ ret' = update_balance(t.Front.Strokes[class],
                                 t.Rear.Strokes[class],
                                 t.Linkage.MaxFrontTravel,
                                 t.Linkage.MaxRearTravel)
        /\ log' = update_balance_log(t.Front.Strokes[class],
                                     t.Rear.Strokes[class],
                                     t.Linkage.MaxFrontTravel,
                                     t.Linkage.MaxRearTravel)
        /\ UNCHANGED <<t, server>>

CallUpdateFft ==
    /\ Idle
    /\ call' = [op |-> "update_fft"]
    /\ ret' = update_fft(t.Front.Travel, Frac(1, t.SampleRate))
    /\ log' = NoWarnings
    /\ UNCHANGED <<t, server>>

(***************************************************************************)
(* The velocity histogram engine.  A sample carries its three digitized    *)
(* indices; -1, 2 (of 2 velocity bins), 4 (of 4 fine bins) and 12 (of 10   *)
(* coarse travel buckets) lie outside their bucket ranges.                 *)
(***************************************************************************)
VelocityKinds ==
    {[dt |-> 0, dv |-> 0, dfv |-> 1],
     [dt |-> -1, dv |-> 2, dfv |-> 4],
     [dt |-> 12, dv |-> 1, dfv |-> -1]}

\* 20 travel bins of 5 mm
TBins21 == [i \in 1..21 |-> 5 * (i - 1)]

\* 25 travel bins of 4 mm: a number of bins that 10 does not divide
TBins26 == [i \in 1..26 |-> 4 * (i - 1)]

VelocityTravelBinsChoices == {<<0>>, TBins3, TBins21, TBins26}

\* four fine bins of 200 mm/s: the centers of the two outer bins lie on the
\* limits -(hst + step/2) and hst + step/2
VBinsFineWide == <<-400, -200, 0, 200, 400>>

FineVelocityBinsChoices == {VBinsFine5, VBinsFineWide}

VelocitySamples(k, layout) ==
    [travel |-> Const(Len(k), 10),
     velocity |-> LayoutVelocity(layout, Len(k)),
     dt |-> [i \in 1..Len(k) |-> k[i].dt],
     dv |-> [i \in 1..Len(k) |-> k[i].dv],
     dfv |-> [i \in 1..Len(k) |-> k[i].dfv],
     bo |-> Const(Len(k), 0)]

InitVelocity ==
    /\ \E n \in 0..MaxN :
         \E k \in [1..n -> VelocityKinds] :
           \E layout \in Layouts(n) :
             \E tbins \in VelocityTravelBinsChoices :
               \E vbins_fine \in FineVelocityBinsChoices :
                 t = Telemetry(1,
                       DecodedSuspension(VelocitySamples(k, layout), layout,
                                         tbins, VBins3, vbins_fine),
                       Absent, 100, 0)
    /\ call = [op |-> "none"]
    /\ ret = <<>>
    /\ log = <<>>
    /\ GeneratorDisabled

NextVelocity ==
    CallVelocityHistogramData \/ CallUpdateVelocityHistogram \/ Return

SpecVelocity == InitVelocity /\ [][NextVelocity]_vars

\* the sum of Stat.Count over the front wheel's strokes
FrontCount ==
    SeqSum([i \in 1..Len(AllStrokes(t.Front.Strokes)) |->
               AllStrokes(t.Front.Strokes)[i].Stat.Count])

\* the numerators of all cells of a two-dimensional histogram
CellNums(rows) ==
    Flatten([r \in 1..Len(rows) |->
                [c \in 1..Len(rows[r]) |-> rows[r][c].num]])

MaxBandN == 4

BandValues == {-200, -50, 50, 200, 250}

BandSamples(k) ==
    [travel |-> Const(Len(k), 10),
     velocity |-> k,
     dt |-> Const(Len(k), 0),
     dv |-> Const(Len(k), 0),
     dfv |-> Const(Len(k), 0),
     bo |-> Const(Len(k), 0)]

InitBands ==
    /\ \E n \in 0..MaxBandN :
         \E k \in [1..n -> BandValues] :
           \E layout \in Layouts(n) :
             t = Telemetry(1,
                   DecodedSuspension(BandSamples(k), layout,
                                     TBins3, VBins3, VBinsFine5),
                   Absent, 100, 0)
    /\ SignsAgree(t.Front.Strokes)
    /\ call = [op |-> "none"]
    /\ ret = <<>>
    /\ log = <<>>
    /\ GeneratorDisabled

NextBands == CallUpdateVelocityBandStats \/ Return

SpecBands == InitBands /\ [][NextBands]_vars

BandCall == call.op = "update_velocity_band_stats"

BandNames == {"lsc", "hsc", "lsr", "hsr"}

\* the velocity samples of stroke s, indices Start..End inclusive
SamplesOf(s) == SubSeq(t.Front.Velocity, s.Start + 1, s.End + 1)

\* the band of a sample by the magnitude of its velocity
BandByMagnitude(v, max_velocity, hst) ==
    IF max_velocity >= 0
    THEN IF Abs(v) < hst THEN "lsc" ELSE "hsc"
    ELSE IF Abs(v) < hst THEN "lsr" ELSE "hsr"

\* the band of every in-stroke sample of the front wheel, by magnitude
FrontBandsByMagnitude ==
    Flatten([i \in 1..Len(AllStrokes(t.Front.Strokes)) |->
        LET s == AllStrokes(t.Front.Strokes)[i]
        IN  [j \in 1..Len(SamplesOf(s)) |->
                BandByMagnitude(SamplesOf(s)[j], s.Stat.MaxVelocity, HST)]])

BandBySign(v, max_velocity, hst) ==
    IF max_velocity >= 0
    THEN IF v < hst THEN "lsc" ELSE "hsc"
    ELSE IF v > -hst THEN "lsr" ELSE "hsr"

FrontBandsBySign ==
    Flatten([i \in 1..Len(AllStrokes(t.Front.Strokes)) |->
        LET s == AllStrokes(t.Front.Strokes)[i]
        IN  [j \in 1..Len(SamplesOf(s)) |->
                BandBySign(SamplesOf(s)[j], s.Stat.MaxVelocity, HST)]])

FrontInStroke ==
    SeqSum([i \in 1..Len(AllStrokes(t.Front.Strokes)) |->
               Len(SamplesOf(AllStrokes(t.Front.Strokes)[i]))])

\* C8: the four band percentages are counts divided by the number of
\* in-stroke samples: each lies in 0..100 and they sum to 100 (so to at
\* most 100, and to 100 when every sample belongs to a stroke) when there is
\* an in-stroke sample; with empty velocity data or no strokes all four
\* are 0.
C8_BandPercentages ==
    BandCall =>
        /\ \A b \in BandNames :
              /\ ret.data[b].den > 0
              /\ 0 <= ret.data[b].num
              /\ ret.data[b].num <= 100 * ret.data[b].den
        /\ IF t.Front.Velocity # <<>> /\ FrontInStroke > 0
           THEN /\ \A b \in BandNames : ret.data[b].den = FrontInStroke
                /\ ret.data.lsc.num + ret.data.hsc.num + ret.data.lsr.num
                      + ret.data.hsr.num = 100 * FrontInStroke
           ELSE \A b \in BandNames : ret.data[b].num = 0

\* three bands hold samples and one sample lies in no stroke
C8_Witness ==
    /\ BandCall
    /\ FrontInStroke > 0
    /\ FrontInStroke < Len(t.Front.Velocity)
    /\ Cardinality({b \in BandNames : ret.data[b].num > 0}) = 3

(***************************************************************************)
(* The five engine entry points over stored sessions, among them sessions  *)
(* without strokes, with and without samples.                              *)
(***************************************************************************)
NextEngines ==
    \/ CallUpdateTravelHistogram
    \/ CallUpdateVelocityHistogram
    \/ CallUpdateVelocityBandStats
    \/ CallUpdateBalance
    \/ CallUpdateFft
    \/ Return

SpecEngines == InitFilter /\ [][NextEngines]_vars

NoStrokes ==
    AllStrokes(t.Front.Strokes) = <<>> /\ AllStrokes(t.Rear.Strokes) = <<>>

\* C1: for empty Strokes, with an empty or a non-empty travel/velocity
\* series, each engine entry point (update_travel_histogram,
\* update_velocity_histogram, update_velocity_band_stats, update_balance,
\* update_fft) returns an empty or zero-filled structure and never raises.
C1_EnginesNeverRaise ==
    NoStrokes =>
        /\ call.op = "update_velocity_histogram" => ~ret.raised
        /\ call.op = "update_travel_histogram" =>
              /\ \A b \in 1..Len(ret.source_data.time_perc) :
                    ret.source_data.time_perc[b].num = 0
              /\ ret.avg.num = 0 /\ ret.mx.num = 0 /\ ret.p95.num = 0
        /\ call.op = "update_velocity_band_stats" =>
              \A b \in BandNames : ret.data[b].num = 0
        /\ call.op = "update_balance" =>
              /\ ret.f_data = [travel |-> <<>>, velocity |-> <<>>,
                               trend |-> <<>>]
              /\ ret.r_data = ret.f_data
        /\ (call.op = "update_fft" /\ t.Front.Travel = <<>>) =>
              ret.freqs.len = 0 /\ ret.spectrum.len = 0

\* the velocity histogram engine raises for a session of samples without
\* strokes
C1_Witness ==
    /\ NoStrokes
    /\ call.op = "update_velocity_histogram"
    /\ t.Front.Velocity # <<>>
    /\ ret.raised

(***************************************************************************)
(* The coarse travel axis of the velocity histogram.                       *)
(***************************************************************************)
\* all digitized-travel entries of the front wheel's strokes
FrontTravelEntries ==
    Flatten([i \in 1..Len(AllStrokes(t.Front.Strokes)) |->
                AllStrokes(t.Front.Strokes)[i].DigitizedTravel])

\* ceil((len(TravelBins) - 1) / 10)
CeilDivider == (Len(t.Front.TravelBins) - 1 + 9) \div 10

\* i div ceil((len(TravelBins) - 1) / 10), kept inside the 10 buckets
CeilCoarseBucket(i) == Min2(Max2(0, i \div CeilDivider), 9)

\* the sum of the numerators of one row of a histogram
RowNum(row) == SeqSum([c \in 1..Len(row) |-> row[c].num])

\* C11: in the velocity histogram engine a digitized-travel index i is
\* counted in the coarse travel bucket i div ceil((len(TravelBins)-1)/10),
\* for every length of TravelBins greater than 1: coarse bucket r holds the
\* share of the samples whose index is reduced to r.
C11_CoarseBucketByCeil ==
    (/\ call.op = "_velocity_histogram_data"
     /\ Len(t.Front.TravelBins) > 1
     /\ FrontCount > 0) =>
        /\ Len(ret.sd.rows) <= 10
        /\ \A r \in 1..Len(ret.sd.rows) :
              RowNum(ret.sd.rows[r]) =
                 100 * Cardinality({i \in 1..Len(FrontTravelEntries) :
                           CeilCoarseBucket(FrontTravelEntries[i]) = r - 1})

\* 25 travel bins: index 12 is counted in coarse bucket 6 = 12 div 2, and
\* bucket 4 = 12 div 3 is empty
C11_Witness ==
    /\ call.op = "_velocity_histogram_data"
    /\ Len(t.Front.TravelBins) = 26
    /\ FrontTravelEntries = <<12>>
    /\ RowNum(ret.sd.rows[7]) = 100
    /\ RowNum(ret.sd.rows[5]) = 0

(***************************************************************************)
(* The balance engine, over two wheels whose strokes are laid out          *)
(* independently and whose max travel may be 0.                            *)
(***************************************************************************)
\* a wheel whose travel rises, or falls, along the record: with a falling
\* travel a later stroke has the smaller Stat.MaxTravel
BalanceWheel(n, layout, falling) ==
    DecodedSuspension(
        [FilterSamples(n, layout) EXCEPT
            !.travel = [i \in 1..n |->
                           IF falling THEN 10 * (n + 1 - i) ELSE 10 * i]],
        layout, TBins3, VBins3, VBinsFine5)

InitBalance ==
    /\ \E n \in 0..MaxN :
         \E fl, rl \in Layouts(n) :
           \E fmax, rmax \in MaxTravelChoices :
             \E falling \in BOOLEAN :
               t = Telemetry(1, BalanceWheel(n, fl, falling),
                             BalanceWheel(n, rl, falling), fmax, rmax)
    /\ call = [op |-> "none"]
    /\ ret = <<>>
    /\ log = <<>>
    /\ GeneratorDisabled

NextBalance == CallUpdateBalance \/ Return

SpecBalance == InitBalance /\ [][NextBalance]_vars

BalanceCall == call.op = "update_balance"

\* the strokes of the class the balance invocation was given, per wheel
BalanceFrontStrokes == t.Front.Strokes[call.class]

BalanceRearStrokes == t.Rear.Strokes[call.class]

\* the three arrays of one wheel have the length of its stroke list, and
\* with fewer than 2 strokes every trend value is NaN
TrendMatches(data, strokes) ==
    /\ Len(data.travel) = Len(strokes)
    /\ Len(data.velocity) = Len(strokes)
    /\ Len(data.trend) = Len(strokes)
    /\ Len(strokes) < 2 => \A i \in 1..Len(data.trend) : data.trend[i].nan

\* C12: for each wheel of the balance engine output the trend array has the
\* length of the travel array and of the velocity array, for every number
\* of strokes; with fewer than 2 strokes every trend value is NaN, and the
\* engine returns (no fit error).
C12_TrendLengthAndNaN ==
    BalanceCall =>
        /\ TrendMatches(ret.f_data, BalanceFrontStrokes)
        /\ TrendMatches(ret.r_data, BalanceRearStrokes)

\* one wheel with a single stroke (one NaN trend value), the other with two
\* (a fitted trend)
C12_Witness ==
    /\ BalanceCall
    /\ Len(BalanceFrontStrokes) = 1
    /\ Len(BalanceRearStrokes) = 2
    /\ Len(ret.f_data.trend) = 1 /\ ret.f_data.trend[1].nan
    /\ Len(ret.r_data.trend) = 2 /\ ~ret.r_data.trend[1].nan

\* the warning of line 17
ZeroMaxWarning == "_travel_velocity: travel_max is 0"

InitWindow ==
    /\ \E n \in 0..MaxN :
         \E fl \in Layouts(n) :
           \E rl \in {l \in Layouts(n) : Cardinality(DOMAIN l) <= 1} :
             t = Telemetry(1, FilterWheel(n, fl), FilterWheel(n, rl),
                           100, 80)
    /\ call = [op |-> "none"]
    /\ ret = <<>>
    /\ log = <<>>
    /\ GeneratorDisabled

NextWindow == Filter \/ Return

SpecWindow == InitWindow /\ [][NextWindow]_vars

\* the window of a filter call whose range is valid
CallWindow == _extract_range(call.args, t.SampleRate)

\* start < Start and End < end for every stroke of the wheel
ContainsEveryStroke(suspension, r) ==
    \A i \in 1..Len(AllStrokes(suspension.Strokes)) :
        /\ r[1][1] < AllStrokes(suspension.Strokes)[i].Start
        /\ AllStrokes(suspension.Strokes)[i].End < r[2][1]

\* the stroke-based aggregates of one wheel's entry
StrokeAggregates(entry) ==
    [thist |-> entry[1].thist, vhist |-> entry[1].vhist,
     vbands |-> entry[1].vbands]

FullSession == FilterBody(t, None, None)

\* C15: for every valid window (0 <= start < end < N) that strictly
\* contains every stroke of a wheel, the stroke-based aggregates of the
\* ranged request (travel histogram with avg/max/p95, velocity histograms
\* and statistics, velocity bands; the balance when the window contains the
\* strokes of both wheels) are the ones of the full-session request.
C15_RangedEqualsFullSession ==
    (call.op = "filter" /\ RangeValid /\ FullSession.status = 200) =>
        /\ ContainsEveryStroke(t.Front, CallWindow) =>
              /\ ret.status = 200
              /\ StrokeAggregates(ret.front) = StrokeAggregates(FullSession.front)
        /\ ContainsEveryStroke(t.Rear, CallWindow) =>
              /\ ret.status = 200
              /\ StrokeAggregates(ret.rear) = StrokeAggregates(FullSession.rear)
        /\ (ContainsEveryStroke(t.Front, CallWindow)
              /\ ContainsEveryStroke(t.Rear, CallWindow)) =>
              /\ ret.status = 200
              /\ ret.balance = FullSession.balance

\* the same with a failed ranged request set aside
C15_EqualWhenServed ==
    (call.op = "filter" /\ RangeValid /\ FullSession.status = 200
        /\ ret.status = 200) =>
        /\ ContainsEveryStroke(t.Front, CallWindow) =>
              StrokeAggregates(ret.front) = StrokeAggregates(FullSession.front)
        /\ ContainsEveryStroke(t.Rear, CallWindow) =>
              StrokeAggregates(ret.rear) = StrokeAggregates(FullSession.rear)
        /\ (ContainsEveryStroke(t.Front, CallWindow)
              /\ ContainsEveryStroke(t.Rear, CallWindow)) =>
              ret.balance = FullSession.balance

\* the window contains the front wheel's only stroke and leaves out a
\* stroke of the rear wheel: the full-session request is served, the ranged
\* one fails
C15_Witness ==
    /\ call.op = "filter" /\ RangeValid
    /\ AllStrokes(t.Front.Strokes) # <<>>
    /\ ContainsEveryStroke(t.Front, CallWindow)
    /\ ~ContainsEveryStroke(t.Rear, CallWindow)
    /\ FullSession.status = 200
    /\ ret.status = 500

\* both wheels' strokes lie inside the window and the two requests are
\* served alike
C15_ServedWitness ==
    /\ call.op = "filter" /\ RangeValid
    /\ AllStrokes(t.Front.Strokes) # <<>>
    /\ AllStrokes(t.Rear.Strokes) # <<>>
    /\ ContainsEveryStroke(t.Front, CallWindow)
    /\ ContainsEveryStroke(t.Rear, CallWindow)
    /\ ret.status = 200
    /\ StrokeAggregates(ret.front) = StrokeAggregates(FullSession.front)
    /\ ret.balance = FullSession.balance
    /\ ret.front[1].fft # FullSession.front[1].fft

\* the strokes the handler selects for a wheel, and the travel samples it
\* hands to the spectrum analyzer
CallSelection(suspension) ==
    SelectionInputs(suspension, SelectedRange(t, call.args)[1],
                    SelectedRange(t, call.args)[2])

\* the entry of a present wheel carries the three stroke-based results and
\* the spectrum of the wheel's own selected travel samples
CarriesAll(entry, suspension) ==
    /\ entry # None
    /\ {"thist", "vhist", "vbands", "fft"} \subseteq DOMAIN entry[1]
    /\ entry[1].fft = update_fft(CallSelection(suspension).travel,
                                 Frac(1, t.SampleRate))

\* C16: the filter response contains a balance result iff both
\* Front.Present and Rear.Present hold; every present wheel's entry
\* carries thist, vhist, vbands and its own fft, and an absent wheel's entry
\* is null.
C16_ResponseShape ==
    call.op = "filter" =>
        /\ ret.status = 200
        /\ ret.balance # None <=> (t.Front.Present /\ t.Rear.Present)
        /\ IF t.Front.Present THEN CarriesAll(ret.front, t.Front)
           ELSE ret.front = None
        /\ IF t.Rear.Present THEN CarriesAll(ret.rear, t.Rear)
           ELSE ret.rear = None

\* the same for the requests that are served; a request fails only when a
\* present wheel has no selected stroke, so no engine runs for an absent
\* wheel (whose strokes are empty)
C16_ShapeWhenServed ==
    call.op = "filter" =>
        IF ret.status = 200
        THEN /\ ret.balance # None <=> (t.Front.Present /\ t.Rear.Present)
             /\ IF t.Front.Present THEN CarriesAll(ret.front, t.Front)
                ELSE ret.front = None
             /\ IF t.Rear.Present THEN CarriesAll(ret.rear, t.Rear)
                ELSE ret.rear = None
        ELSE \/ t.Front.Present
                /\ AllStrokes(CallSelection(t.Front).strokes) = <<>>
             \/ t.Rear.Present
                /\ AllStrokes(CallSelection(t.Rear).strokes) = <<>>

\* both wheels are present and have strokes, the window leaves the rear
\* wheel without a selected stroke: the request fails and carries no
\* balance
C16_Witness ==
    /\ call.op = "filter"
    /\ t.Front.Present /\ t.Rear.Present
    /\ AllStrokes(t.Front.Strokes) # <<>>
    /\ AllStrokes(t.Rear.Strokes) # <<>>
    /\ AllStrokes(CallSelection(t.Rear).strokes) = <<>>
    /\ ret.status = 500

\* a served request of a session without a front wheel
C16_ServedWitness ==
    /\ call.op = "filter"
    /\ ~t.Front.Present /\ t.Rear.Present
    /\ ret.status = 200
    /\ ret.front = None /\ ret.balance = None
    /\ CarriesAll(ret.rear, t.Rear)

\* every stroke of out is, field by field, a stroke of list
CopiedFrom(out, list) ==
    \A j \in 1..Len(out) :
        \E i \in 1..Len(list) :
            /\ out[j].Start = list[i].Start
            /\ out[j].End = list[i].End
            /\ out[j].Stat = list[i].Stat
            /\ out[j].DigitizedTravel = list[i].DigitizedTravel
            /\ out[j].DigitizedVelocity = list[i].DigitizedVelocity
            /\ out[j].FineDigitizedVelocity = list[i].FineDigitizedVelocity

\* C17: every stroke in the output of _filter_strokes has Start, End, Stat
\* and the three digitized arrays of the corresponding input stroke (the
\* indices stay absolute); the filter of a wheel draws from the strokes of
\* that wheel only, whatever the other wheel holds, and without both bounds
\* it returns its input.
C17_StrokesCopied ==
    call.op = "_filter_strokes" =>
        /\ CopiedFrom(ret.Compressions, FilterStrokesInput.Compressions)
        /\ CopiedFrom(ret.Rebounds, FilterStrokesInput.Rebounds)
        /\ (call.start = None \/ call.end = None) => ret = FilterStrokesInput

\* C17: a filter invocation leaves the Telemetry, and with it its input
\* Strokes, unchanged.
C17_InputUnchanged == [][call'.op = "_filter_strokes" => t' = t]_vars

\* a window that does not start at sample 0 keeps a stroke of the rear
\* wheel that is not a stroke of the front wheel, at its absolute indices
C17_Witness ==
    /\ call.op = "_filter_strokes" /\ call.wheel = "Rear"
    /\ call.start # None /\ call.end # None /\ call.start[1] > 0
    /\ \E j \in 1..Len(AllStrokes(ret)) :
          /\ AllStrokes(ret)[j].Start > call.start[1]
          /\ \A i \in 1..Len(AllStrokes(t.Front.Strokes)) :
                AllStrokes(t.Front.Strokes)[i] # AllStrokes(ret)[j]

(***************************************************************************)
(* A decoded session under any sequence of engine invocations and filter   *)
(* passes.                                                                 *)
(***************************************************************************)
NextSession ==
    \/ Filter
    \/ CallFilterStrokes
    \/ CallUpdateTravelHistogram
    \/ CallUpdateVelocityHistogram
    \/ CallUpdateVelocityBandStats
    \/ CallUpdateBalance
    \/ CallUpdateFft
    \/ Return

SpecSession == InitFilter /\ [][NextSession]_vars

\* the result of the invocation c over the Telemetry tel, from the
\* invocation's own inputs
ResultOf(c, tel) ==
    CASE c.op = "filter" -> filter(tel, c.args)
      [] c.op = "_filter_strokes" ->
            _filter_strokes(IF c.wheel = "Front" THEN tel.Front.Strokes
                            ELSE tel.Rear.Strokes, c.start, c.end)
      [] c.op = "update_travel_histogram" ->
            update_travel_histogram(
                SelectionInputs(tel.Front, c.start, c.end).strokes,
                SelectionInputs(tel.Front, c.start, c.end).travel,
                tel.Front.TravelBins, tel.Linkage.MaxFrontTravel,
                SelectionInputs(tel.Front, c.start, c.end).selection_start)
      [] c.op = "update_velocity_histogram" ->
            update_velocity_histogram(tel.Front.Strokes, tel.Front.Velocity,
                                      tel.Front.TravelBins,
                                      tel.Front.VelocityBins,
                                      tel.Front.FineVelocityBins, HST)
      [] c.op = "update_velocity_band_stats" ->
            update_velocity_band_stats(tel.Front.Strokes, tel.Front.Velocity,
                                       HST)
      [] c.op = "update_balance" ->
            update_balance(tel.Front.Strokes[c.class],
                           tel.Rear.Strokes[c.class],
                           tel.Linkage.MaxFrontTravel,
                           tel.Linkage.MaxRearTravel)
      [] c.op = "update_fft" ->
            update_fft(tel.Front.Travel, Frac(1, tel.SampleRate))
      [] c.op = "none" -> <<>>

FloorIndex(arg, sample_rate) == (arg.halves * sample_rate) \div 2

\* the numeric arguments of a filter call
NumericArgs ==
    {a \in {call.args.start, call.args.end} : a.kind = "num"}

\* C19: for every seconds value s supplied as start or end (negative and
\* fractional values included) and every SampleRate r, the sample index
\* used by the range selector is floor(s * r).
C19_IndexIsFloor ==
    call.op = "filter" =>
        \A a \in NumericArgs :
            ToIndex(a, t.SampleRate) = Some(FloorIndex(a, t.SampleRate))

\* the index is the floor for every s * r that is not negative or is whole
C19_FloorUnlessNegativeFraction ==
    call.op = "filter" =>
        \A a \in NumericArgs :
            (a.halves >= 0 \/ (a.halves * t.SampleRate) % 2 = 0) =>
                ToIndex(a, t.SampleRate) = Some(FloorIndex(a, t.SampleRate))

\* start = -0.5 s at one sample per second: the selector uses index 0 where
\* the floor is -1, the range passes the validation and the response is
\* the one of the selection, not the one of the full session
C19_Witness ==
    /\ call.op = "filter"
    /\ call.args.start = [kind |-> "num", halves |-> -1]
    /\ t.SampleRate = 1
    /\ FloorIndex(call.args.start, t.SampleRate) = -1
    /\ RangeValid
    /\ ret.status = 200
    /\ ret # FilterBody(t, None, None)

(***************************************************************************)
(* The spectrum analyzer over the front wheel's travel series (empty for   *)
(* an absent wheel) and a tick: not positive, 1 s, 0.5 s, 1/25 s and       *)
(* 1/249 s (the 10 Hz cutoff drops bins), 20 s (two bins: the series of    *)
(* two samples and more take the welch branch).                            *)
(***************************************************************************)
Ticks ==
    {Frac(-1, 1), Frac(0, 1), Frac(1, 1), Frac(1, 2), Frac(1, 25),
     Frac(1, 249), Frac(20, 1)}

CallFftData ==
    \E tick \in Ticks :
        /\ Idle
        /\ call' = [op |-> "_fft_data", tick |-> tick]
        /\ ret' = _fft_data(t.Front.Travel, tick)
        /\ log' = NoWarnings
        /\ UNCHANGED <<t, server>>

NextFft == CallFftData \/ Return

SpecFft == InitFilter /\ [][NextFft]_vars

FftCall == call.op = "_fft_data"

\* the frequency f is <= 10.0 as a double
AtMostCutoff(f) ==
    \/ f.num < CUTOFF_FREQ * f.den
    \/ f.num = CUTOFF_FREQ * f.den /\ ~f.above

\* the frequency f is <= 10.0 + 1e-9 as a double
WithinTolerance(f) == f.num <= CUTOFF_FREQ * f.den

\* C20: for every travel series and tick the spectrum analyzer returns
\* freqs and spectrum of equal length, every returned frequency is <= 10.0
\* Hz, and an empty series or a tick <= 0 gives two empty arrays.
C20_SpectrumBounded ==
    FftCall =>
        /\ ret.freqs.len = ret.spectrum.len
        /\ ret.freqs.len > 0 => AtMostCutoff(ret.freqs.last)
        /\ (t.Front.Travel = <<>> \/ call.tick.num <= 0) =>
              ret.freqs.len = 0 /\ ret.spectrum.len = 0

\* the same with the tolerance of the cutoff test
C20_BoundedWithinTolerance ==
    FftCall =>
        /\ ret.freqs.len = ret.spectrum.len
        /\ ret.freqs.len > 0 => WithinTolerance(ret.freqs.last)
        /\ (t.Front.Travel = <<>> \/ call.tick.num <= 0) =>
              ret.freqs.len = 0 /\ ret.spectrum.len = 0

\* 249 samples per second: 401 of the 4981 bins are returned and the last
\* of them, bin 400, is above 10.0
C20_Witness ==
    /\ FftCall
    /\ call.tick = Frac(1, 249)
    /\ t.Front.Travel # <<>>
    /\ ret.freqs.len = 401
    /\ ret.spectrum.nfft = 9960
    /\ ret.freqs.last.num = CUTOFF_FREQ * ret.freqs.last.den
    /\ ret.freqs.last.above

\* the cutoff drops the bins above 10 Hz and the last returned one is 10.0
C20_CutoffWitness ==
    /\ FftCall
    /\ call.tick = Frac(1, 25)
    /\ ret.freqs.len = 401
    /\ ret.spectrum.nfft = 1000
    /\ AtMostCutoff(ret.freqs.last)

(***************************************************************************)
(* The fine (low-speed) velocity histogram.                                *)
(***************************************************************************)
\* the samples of the front wheel's strokes, as pairs <<digitized travel
\* index, fine digitized velocity index>>
FrontFineSamples ==
    Flatten([i \in 1..Len(AllStrokes(t.Front.Strokes)) |->
        [j \in 1..Len(AllStrokes(t.Front.Strokes)[i].DigitizedTravel) |->
            <<AllStrokes(t.Front.Strokes)[i].DigitizedTravel[j],
              AllStrokes(t.Front.Strokes)[i].FineDigitizedVelocity[j]>>]])

\* the fine bin of a sample: its FineDigitizedVelocity index, kept inside
\* the bins
FineBin(idx) == Min2(Max2(0, idx), Len(t.Front.FineVelocityBins) - 2)

\* twice the center of fine bin b, and twice hst + step/2
TwiceFineCenter(b) ==
    t.Front.FineVelocityBins[b + 1] + t.Front.FineVelocityBins[b + 2]

TwiceFineLimit ==
    2 * HST + (t.Front.FineVelocityBins[2] - t.Front.FineVelocityBins[1])

\* -(hst + step/2) < c < hst + step/2 for the center c of fine bin b
Contributes(b) ==
    -TwiceFineLimit < TwiceFineCenter(b) /\ TwiceFineCenter(b) < TwiceFineLimit

\* C21: in the velocity histogram engine a sample contributes to the fine
\* histogram iff the center c of its fine velocity bin satisfies
\* -(hst + step/2) < c < hst + step/2; a contributing sample is counted in
\* the cell (its coarse travel bucket, its fine bin), a non-contributing
\* sample in no fine cell, and both count in the normalising total.
C21_FineHistogramBand ==
    (call.op = "_velocity_histogram_data" /\ FrontCount > 0) =>
        \A r \in 1..Len(ret.sd_lowspeed.rows) :
            \A c \in 1..Len(ret.sd_lowspeed.rows[r]) :
                /\ ret.sd_lowspeed.rows[r][c].den = FrontCount
                /\ ret.sd_lowspeed.rows[r][c].num =
                      100 * Cardinality({i \in 1..Len(FrontFineSamples) :
                          /\ CoarseTravelBucket(FrontFineSamples[i][1],
                                                t.Front.TravelBins) = r - 1
                          /\ FineBin(FrontFineSamples[i][2]) = c - 1
                          /\ Contributes(c - 1)})

\* a sample whose fine bin has its center on the limit is in no fine cell,
\* another one is, and the fine cells sum to less than 100 percent
C21_Witness ==
    /\ call.op = "_velocity_histogram_data"
    /\ FrontCount > 1
    /\ \E i, j \in 1..Len(FrontFineSamples) :
          /\ ~Contributes(FineBin(FrontFineSamples[i][2]))
          /\ Contributes(FineBin(FrontFineSamples[j][2]))
    /\ SeqSum(CellNums(ret.sd_lowspeed.rows)) > 0
    /\ SeqSum(CellNums(ret.sd_lowspeed.rows)) < 100 * FrontCount

(***************************************************************************)
(* The normal-curve overlay over the front wheel's strokes and a velocity  *)
(* series: the stored one, the stored one without its last sample (a       *)
(* stroke may end beyond it), a constant one, and none.                    *)
(***************************************************************************)
CurveSeries ==
    {t.Front.Velocity,
     SubSeq(t.Front.Velocity, 1, Len(t.Front.Velocity) - 1),
     Const(Len(t.Front.Velocity), 70),
     <<>>}

CallNormalDistributionData ==
    \E velocity_data \in CurveSeries :
        /\ Idle
        /\ call' = [op |-> "_normal_distribution_data",
                    velocity_data |-> velocity_data]
        /\ ret' = _normal_distribution_data(t.Front.Strokes, velocity_data,
                                            BinStep(t.Front.VelocityBins))
        /\ log' = NoWarnings
        /\ UNCHANGED <<t, server>>

NextCurve == CallNormalDistributionData \/ Return

SpecCurve == InitFilter /\ [][NextCurve]_vars

CurveCall == call.op = "_normal_distribution_data"

\* the strokes of the front wheel whose bounds lie inside the series of the
\* call, and their samples
StrokesInSeries ==
    SelectSeq(AllStrokes(t.Front.Strokes),
              LAMBDA s : /\ 0 <= s.Start /\ s.Start <= s.End
                         /\ s.End < Len(call.velocity_data))

InStrokeSamples ==
    Flatten([i \in 1..Len(StrokesInSeries) |->
                [j \in 1..(StrokesInSeries[i].End - StrokesInSeries[i].Start + 1) |->
                    call.velocity_data[StrokesInSeries[i].Start + j]]])

AllIdentical(seq) == \A i, j \in 1..Len(seq) : seq[i] = seq[j]

\* C22: the normal-curve overlay arrays pdf and ny have equal length: 0
\* when there is no in-stroke velocity sample, exactly 1 (a single point at
\* the common value) when all in-stroke samples are identical, and 100
\* otherwise; strokes whose bounds fall outside the velocity series
\* contribute no sample.
C22_CurveLengths ==
    CurveCall =>
        /\ ~ret.raised
        /\ ret.points =
              (IF InStrokeSamples = <<>> THEN 0
               ELSE IF AllIdentical(InStrokeSamples) THEN 1 ELSE NUM_POINTS)
        /\ (InStrokeSamples # <<>> /\ AllIdentical(InStrokeSamples)) =>
              ret.lo = InStrokeSamples[1] /\ ret.hi = InStrokeSamples[1]

\* the same for the calls that have an in-stroke sample
C22_CurveLengthsWhenSampled ==
    (CurveCall /\ InStrokeSamples # <<>>) =>
        /\ ~ret.raised
        /\ ret.points =
              (IF AllIdentical(InStrokeSamples) THEN 1 ELSE NUM_POINTS)
        /\ AllIdentical(InStrokeSamples) =>
              ret.lo = InStrokeSamples[1] /\ ret.hi = InStrokeSamples[1]
        /\ ret.lo = SeqMin(InStrokeSamples) /\ ret.hi = SeqMax(InStrokeSamples)

\* the wheel has a stroke and the series is not empty, but the stroke ends
\* beyond the series: no in-stroke sample, and the call raises
C22_Witness ==
    /\ CurveCall
    /\ AllStrokes(t.Front.Strokes) # <<>>
    /\ call.velocity_data # <<>>
    /\ InStrokeSamples = <<>>
    /\ ret.raised

\* two identical samples give one point, two different ones give 100, and
\* a stroke beyond the series is left out
C22_SampledWitness ==
    /\ CurveCall
    /\ Len(InStrokeSamples) > 1
    /\ Len(StrokesInSeries) < Len(AllStrokes(t.Front.Strokes))
    /\ ~ret.raised
    /\ ret.points = NUM_POINTS

(***************************************************************************)
(* The balance engine: the order and the pairing of its arrays.            *)
(***************************************************************************)
\* the travel percentage of a stroke, 0 for a wheel without travel
StrokeTravelPercent(stroke, travel_max) ==
    IF travel_max = 0 THEN Frac(0, 1)
    ELSE Frac(stroke.Stat.MaxTravel * 100, travel_max)

FracEq(a, b) == a.num * b.den = b.num * a.den

NonDecreasing(travel) ==
    \A i \in 1..(Len(travel) - 1) : FracLE(travel[i], travel[i + 1])

\* the pairs (travel[i], velocity[i]) are the strokes' pairs in some order
PairsPermuted(data, strokes, travel_max) ==
    /\ Len(data.travel) = Len(strokes)
    /\ Len(data.velocity) = Len(strokes)
    /\ \E p \in [1..Len(strokes) -> 1..Len(strokes)] :
          /\ \A i, j \in 1..Len(strokes) : p[i] = p[j] => i = j
          /\ \A i \in 1..Len(strokes) :
                /\ FracEq(data.travel[i],
                          StrokeTravelPercent(strokes[p[i]], travel_max))
                /\ data.velocity[i] = strokes[p[i]].Stat.MaxVelocity

\* C23: for each wheel in the balance engine the output travel array is
\* non-decreasing and the sequence of (travel%, velocity) pairs is a
\* permutation of the input strokes' (Stat.MaxTravel / max_travel * 100,
\* Stat.MaxVelocity) pairs: every velocity stays paired with the travel% of
\* its own stroke.
C23_SortedPairs ==
    BalanceCall =>
        /\ NonDecreasing(ret.f_data.travel)
        /\ NonDecreasing(ret.r_data.travel)
        /\ PairsPermuted(ret.f_data, BalanceFrontStrokes,
                         t.Linkage.MaxFrontTravel)
        /\ PairsPermuted(ret.r_data, BalanceRearStrokes,
                         t.Linkage.MaxRearTravel)

\* the front wheel's second stroke has the smaller travel: it comes first
\* in the output, with its own velocity
C23_Witness ==
    /\ BalanceCall
    /\ t.Linkage.MaxFrontTravel > 0
    /\ Len(BalanceFrontStrokes) = 2
    /\ BalanceFrontStrokes[2].Stat.MaxTravel < BalanceFrontStrokes[1].Stat.MaxTravel
    /\ ret.f_data.velocity[1] = BalanceFrontStrokes[2].Stat.MaxVelocity
    /\ ret.f_data.velocity[2] = BalanceFrontStrokes[1].Stat.MaxVelocity
    /\ ret.f_data.velocity[1] # ret.f_data.velocity[2]

\* the largest travel% of a wheel's strokes (of a non-empty list)
LargestTravelPercent(strokes, travel_max) ==
    IF travel_max = 0 THEN Frac(0, 1)
    ELSE Frac(100 * SeqMax([i \in 1..Len(strokes) |->
                               strokes[i].Stat.MaxTravel]), travel_max)

FracMax(a, b) == IF FracLE(a, b) THEN b ELSE a

\* the maximum over the wheels that have strokes, and 100 when it is not
\* positive or no wheel has strokes
SharedRangeEnd(front_strokes, rear_strokes, front_max, rear_max) ==
    LET f == LargestTravelPercent(front_strokes, front_max)
        r == LargestTravelPercent(rear_strokes, rear_max)
        v == IF front_strokes # <<>> /\ rear_strokes # <<>> THEN FracMax(f, r)
             ELSE IF front_strokes # <<>> THEN f
             ELSE r
    IN  IF front_strokes = <<>> /\ rear_strokes = <<>> THEN Frac(100, 1)
        ELSE IF v.num * v.den <= 0 THEN Frac(100, 1)
        ELSE v

C24_FallbackWitness ==
    /\ BalanceCall
    /\ BalanceFrontStrokes # <<>> /\ BalanceRearStrokes # <<>>
    /\ t.Linkage.MaxFrontTravel = 0 /\ t.Linkage.MaxRearTravel = 0
    /\ ret.range_end = Frac(100, 1)

(***************************************************************************)
(* The travel engine on a record long enough for a window that does not    *)
(* start at sample 0 to keep a stroke.                                     *)
(***************************************************************************)
MaxWindowN == 4

InitSelection ==
    /\ \E n \in 0..MaxWindowN :
         \E layout \in Layouts(n) :
           t = Telemetry(1, FilterWheel(n, layout), Absent, 100, 0)
    /\ call = [op |-> "none"]
    /\ ret = <<>>
    /\ log = <<>>
    /\ GeneratorDisabled

NextSelection == CallUpdateTravelHistogram \/ Return

SpecSelection == InitSelection /\ [][NextSelection]_vars

\* the full-series samples Travel[Start..End] of the strokes the travel
\* invocation was given
KeptStrokeSamples ==
    Flatten([i \in 1..Len(TravelCallStrokes) |->
                SubSeq(t.Front.Travel, TravelCallStrokes[i].Start + 1,
                       TravelCallStrokes[i].End + 1)])

\* C25: for every valid window [start, end) and every stroke kept by the
\* stroke filter for that window, the relative indices Start-start ..
\* End-start all lie inside the sliced series Travel[start:end], and the
\* travel samples used for avg/max/p95 are exactly the full-series samples
\* Travel[Start..End] of the kept strokes.
C25_StatsOverStrokeSamples ==
    (TravelCall /\ call.start # None) =>
        /\ \A i \in 1..Len(TravelCallStrokes) :
              /\ 0 <= TravelCallStrokes[i].Start - call.start[1]
              /\ TravelCallStrokes[i].End - call.start[1]
                    < call.end[1] - call.start[1]
        /\ IF KeptStrokeSamples = <<>>
           THEN ret.avg.num = 0 /\ ret.mx.num = 0 /\ ret.p95.num = 0
           ELSE /\ FracEq(ret.avg,
                          to_percentage(Mean(KeptStrokeSamples),
                                        t.Linkage.MaxFrontTravel))
                /\ FracEq(ret.mx,
                          to_percentage(Frac(SeqMax(KeptStrokeSamples), 1),
                                        t.Linkage.MaxFrontTravel))
                /\ FracEq(ret.p95,
                          to_percentage(Percentile95(KeptStrokeSamples),
                                        t.Linkage.MaxFrontTravel))

\* a window that starts after sample 0 keeps a stroke, and another stroke
\* of the wheel is left out
C25_Witness ==
    /\ TravelCall /\ call.start # None
    /\ call.start[1] > 0
    /\ TravelCallStrokes # <<>>
    /\ Len(TravelCallStrokes) < Len(AllStrokes(t.Front.Strokes))
    /\ ret.avg.num > 0

\* a stroke that begins at sample 0 or ends at the last sample
EdgeStroke(s) == s.Start = 0 \/ s.End = RecordCount - 1

\* the strokes the filter call selects for the present wheels
CallSelectedStrokes ==
    (IF t.Front.Present THEN AllStrokes(CallSelection(t.Front).strokes)
     ELSE <<>>)
    \o (IF t.Rear.Present THEN AllStrokes(CallSelection(t.Rear).strokes)
        ELSE <<>>)

\* C26: for every valid window (0 <= start < end < N) every stroke selected
\* by the filter pass has Start >= 1 and End <= N-2: a stroke that begins
\* at sample 0 or ends at the last sample is in no ranged selection, while
\* the full-range request, served without a valid window, works on all
\* strokes of the wheel.
C26_EdgeStrokesNeverSelected ==
    call.op = "filter" =>
        IF RangeValid
        THEN \A i \in 1..Len(CallSelectedStrokes) :
                /\ CallSelectedStrokes[i].Start >= 1
                /\ CallSelectedStrokes[i].End <= RecordCount - 2
                /\ ~EdgeStroke(CallSelectedStrokes[i])
        ELSE CallSelectedStrokes =
                AllStrokes(t.Front.Strokes) \o AllStrokes(t.Rear.Strokes)

\* a served ranged request on a wheel with an inner stroke and a stroke
\* that begins at sample 0: only the inner one is selected
C26_Witness ==
    /\ call.op = "filter" /\ RangeValid
    /\ t.Front.Present
    /\ \E i \in 1..Len(AllStrokes(t.Front.Strokes)) :
          AllStrokes(t.Front.Strokes)[i].Start = 0
    /\ Len(AllStrokes(CallSelection(t.Front).strokes)) = 1
    /\ ret.status = 200

\* len(TravelBins) - 1, or 0 with fewer than 2 bin edges
TravelBinCount ==
    IF Len(t.Front.TravelBins) >= 2 THEN Len(t.Front.TravelBins) - 1 ELSE 0

\* C27: in every payload returned by update_travel_histogram the three
\* arrays of source_data (travel_mids_perc, time_perc, bar_widths_perc)
\* have the same length, len(TravelBins) - 1 or 0 with fewer than 2 bin
\* edges, for all inputs including a max travel that is 0.
C27_SourceArraysSameLength ==
    TravelCall =>
        /\ Len(ret.source_data.travel_mids_perc) = TravelBinCount
        /\ Len(ret.source_data.time_perc) = TravelBinCount
        /\ Len(ret.source_data.bar_widths_perc) = TravelBinCount

\* the same for a wheel with travel; for every wheel time_perc has one
\* entry per bin
C27_SameLengthWithTravel ==
    TravelCall =>
        /\ Len(ret.source_data.time_perc) = TravelBinCount
        /\ Len(ret.source_data.travel_mids_perc)
              = Len(ret.source_data.bar_widths_perc)
        /\ t.Linkage.MaxFrontTravel > 0 =>
              Len(ret.source_data.travel_mids_perc) = TravelBinCount

\* two travel bins and a max travel of 0: time_perc has two entries, the
\* other two arrays none
C27_Witness ==
    /\ TravelCall
    /\ t.Linkage.MaxFrontTravel = 0
    /\ TravelBinCount = 2
    /\ Len(ret.source_data.time_perc) = 2
    /\ Len(ret.source_data.travel_mids_perc) = 0
    /\ Len(ret.source_data.bar_widths_perc) = 0


(***************************************************************************)
(* The session routes that ask for the cached dashboard of a session, and   *)
(* the background thread that generates it.  The routes put session ids on  *)
(* the module-level id_queue; html_generator, started once by create_app,   *)
(* is the only thread that takes them off.                                  *)
(***************************************************************************)
MaxPuts == 3        \* ids put on id_queue in one behaviour: 0..MaxPuts

SessionIds == {1, 2}

\* the routes of this part decode no Telemetry
NoTelemetry == <<>>

\* the queue after generate_bokeh(id) and the status it answers with
generate_bokeh_IgnoringDebug(id, rows, dbg, queue) ==
    IF id \notin rows.Session
    THEN [status |-> 400, id_queue |-> queue]
    ELSE IF id \notin rows.SessionHtml
         THEN [status |-> 202, id_queue |-> Append(queue, id)]
         ELSE [status |-> 200, id_queue |-> queue]

generate_bokeh(id, rows, dbg, queue) ==
    IF id \notin rows.Session
    THEN [status |-> 400, id_queue |-> queue]
    ELSE IF id \notin rows.SessionHtml \/ dbg
         THEN [status |-> 202, id_queue |-> Append(queue, id)]
         ELSE [status |-> 200, id_queue |-> queue]

\* what a put adds to the history of puts
PutsAfter(queue) ==
    IF Len(queue) > Len(id_queue) THEN Append(puts, queue[Len(queue)])
    ELSE puts

\* PUT /<id>/bokeh
GenerateBokeh ==
    \E id \in SessionIds :
        LET r == generate_bokeh(id, db, debug, id_queue)
        IN  /\ Idle
            /\ Len(puts) < MaxPuts
            /\ call' = [op |-> "generate_bokeh", id |-> id]
            /\ ret' = [status |-> r.status]
            /\ id_queue' = r.id_queue
            /\ puts' = PutsAfter(r.id_queue)
            /\ log' = <<>>
            /\ UNCHANGED <<t, db, debug, generator, emitted, errors, created>>

\* PUT /psst: a body that is no Session is refused; otherwise the session is
\* merged into the database and generate_bokeh is called for its id
PutProcessed ==
    \E id \in SessionIds, valid \in BOOLEAN :
        LET merged == [db EXCEPT !.Session = @ \cup {id}]
            r == generate_bokeh(id, merged, debug, id_queue)
        IN  /\ Idle
            /\ Len(puts) < MaxPuts
            /\ call' = [op |-> "put_processed", id |-> id]
            /\ log' = <<>>
            /\ IF valid
               THEN /\ db' = merged
                    /\ ret' = [status |-> 201]
                    /\ id_queue' = r.id_queue
                    /\ puts' = PutsAfter(r.id_queue)
               ELSE /\ ret' = [status |-> 400]
                    /\ UNCHANGED <<db, id_queue, puts>>
            /\ UNCHANGED <<t, debug, generator, emitted, errors, created>>

\* PATCH /<id>/psst: an unknown session is refused; otherwise its data is
\* replaced and generate_bokeh is called for its id
PatchPsst ==
    \E id \in SessionIds :
        LET r == generate_bokeh(id, db, debug, id_queue)
        IN  /\ Idle
            /\ Len(puts) < MaxPuts
            /\ call' = [op |-> "patch_psst", id |-> id]
            /\ log' = <<>>
            /\ IF id \in db.Session
               THEN /\ ret' = [status |-> 204]
                    /\ id_queue' = r.id_queue
                    /\ puts' = PutsAfter(r.id_queue)
               ELSE /\ ret' = [status |-> 404]
                    /\ UNCHANGED <<id_queue, puts>>
            /\ UNCHANGED <<t, db, debug, generator, emitted, errors, created>>

\* html_generator: id_from_queue = id_queue.get() blocks while the queue is
\* empty, and create_cache is called with the id it returned
Get ==
    /\ generator.pc = "get"
    /\ id_queue # <<>>
    /\ generator' = [pc |-> "create_cache", id_from_queue |-> <<Head(id_queue)>>]
    /\ id_queue' = Tail(id_queue)
    /\ created' = Append(created, [id |-> Head(id_queue), outcome |-> "running"])
    /\ UNCHANGED <<t, call, ret, log, db, debug, emitted, errors, puts>>

\* create_cache returns: whether it stored a SessionHtml row is its own affair
CreateCacheReturns ==
    /\ generator.pc = "create_cache"
    /\ generator' = [generator EXCEPT !.pc = "emit"]
    /\ created' = [created EXCEPT ![Len(created)].outcome = "returned"]
    /\ \E stored \in BOOLEAN :
         db' = IF stored
               THEN [db EXCEPT !.SessionHtml = @ \cup {generator.id_from_queue[1]}]
               ELSE db
    /\ UNCHANGED <<t, call, ret, log, debug, id_queue, emitted, errors, puts>>

\* the handler of an exception of create_cache, were the try statement
\* around the loop and not inside it
CreateCacheRaises_LeavingLoop ==
    /\ generator.pc = "create_cache"
    /\ generator' = [generator EXCEPT !.pc = "done"]
    /\ created' = [created EXCEPT ![Len(created)].outcome = "raised"]
    /\ errors' = Append(errors, [session |-> generator.id_from_queue[1]])
    /\ UNCHANGED <<t, call, ret, log, db, debug, id_queue, emitted, puts>>

\* the handler of an exception of create_cache, were sio.emit in a finally
\* clause and not the last statement of the try block
CreateCacheRaises_Emitting ==
    /\ generator.pc = "create_cache"
    /\ generator' = [generator EXCEPT !.pc = "emit"]
    /\ created' = [created EXCEPT ![Len(created)].outcome = "raised"]
    /\ errors' = Append(errors, [session |-> generator.id_from_queue[1]])
    /\ UNCHANGED <<t, call, ret, log, db, debug, id_queue, emitted, puts>>

\* create_cache raises an Exception: the handler logs "Cache generation
\* failed for session <id>" and the loop goes on to the next get
CreateCacheRaises ==
    /\ generator.pc = "create_cache"
    /\ generator' = [generator EXCEPT !.pc = "get"]
    /\ created' = [created EXCEPT ![Len(created)].outcome = "raised"]
    /\ errors' = Append(errors, [session |-> generator.id_from_queue[1]])
    /\ UNCHANGED <<t, call, ret, log, db, debug, id_queue, emitted, puts>>

\* sio.emit("session_ready"), the last statement of the try block
Emit ==
    /\ generator.pc = "emit"
    /\ emitted' = Append(emitted, "session_ready")
    /\ generator' = [generator EXCEPT !.pc = "get"]
    /\ UNCHANGED <<t, call, ret, log, db, debug, id_queue, errors, puts, created>>

\* create_app with the generator enabled: the thread is started and waits in
\* its first get; the database holds whatever earlier runs left in it
InitGenerator ==
    /\ t = NoTelemetry
    /\ call = [op |-> "none"]
    /\ ret = <<>>
    /\ log = <<>>
    /\ db \in [Session : SUBSET SessionIds, SessionHtml : SUBSET SessionIds]
    /\ debug \in BOOLEAN
    /\ id_queue = <<>>
    /\ generator = [pc |-> "get", id_from_queue |-> <<>>]
    /\ emitted = <<>>
    /\ errors = <<>>
    /\ puts = <<>>
    /\ created = <<>>

NextGenerator ==
    \/ GenerateBokeh
    \/ PutProcessed
    \/ PatchPsst
    \/ Return
    \/ Get
    \/ CreateCacheReturns
    \/ CreateCacheRaises
    \/ Emit

SpecGenerator == InitGenerator /\ [][NextGenerator]_vars

\* the generator thread is scheduled whenever it can run, and a call of
\* create_cache comes to an end, by returning or by raising
GeneratorFairness ==
    /\ WF_vars(Get)
    /\ WF_vars(CreateCacheReturns \/ CreateCacheRaises)
    /\ WF_vars(Emit)

SpecGeneratorFair == SpecGenerator /\ GeneratorFairness


\* the ids of the first n calls of create_cache, in call order
CreatedIds == [k \in 1..Len(created) |-> created[k].id]

\* the k-th id put on the queue has been taken and passed to create_cache
Generated(k) == Len(created) >= k /\ created[k].id = puts[k]

\* C28: with the generator thread running, every id put on id_queue is
\* eventually taken by the consumer and passed to create_cache, one id at a
\* time and in the order of the puts, also after create_cache raised for an
\* earlier id: each failure is logged, and the loop never ends.
C28_EveryPutGenerated ==
    /\ \A k \in 1..MaxPuts : (Len(puts) >= k) ~> Generated(k)
    /\ [](CreatedIds = SubSeq(puts, 1, Len(created)))
    /\ [](\A k \in 1..Len(created) :
            created[k].outcome = "running" =>
                k = Len(created) /\ generator.pc = "create_cache")
    /\ [](Len(errors) = Cardinality({k \in 1..Len(created) :
                                       created[k].outcome = "raised"}))
    /\ [](generator.pc \in {"get", "create_cache", "emit"})

\* create_cache raised for the first id, and the second id was passed to
\* create_cache after that
C28_Witness ==
    /\ Len(created) >= 2
    /\ created[1].outcome = "raised"
    /\ errors # <<>>
    /\ errors[1].session = puts[1]


\* how many calls of create_cache have returned without an exception
ReturnedCalls ==
    Cardinality({k \in 1..Len(created) : created[k].outcome = "returned"})

\* C29: the generator emits "session_ready" only as the step that follows a
\* call of create_cache that returned without an exception, once for each
\* such call; a call that raised produces no event.
C29_ReadyOncePerSuccess ==
    /\ [][emitted' # emitted =>
            /\ generator.pc = "emit"
            /\ created # <<>>
            /\ created[Len(created)].outcome = "returned"
            /\ created' = created
            /\ emitted' = Append(emitted, "session_ready")]_vars
    /\ [](Len(emitted) + (IF generator.pc = "emit" THEN 1 ELSE 0)
            = ReturnedCalls)

\* one generation failed and a later one succeeded: one event for two calls
C29_Witness ==
    /\ Len(created) = 2
    /\ created[1].outcome = "raised"
    /\ created[2].outcome = "returned"
    /\ emitted = <<"session_ready">>


\* the last request reached generate_bokeh: through its own route, or as
\* the call that put_processed and patch_psst make before they answer
BokehReached ==
    \/ call.op = "generate_bokeh"
    \/ call.op = "put_processed" /\ ret.status = 201
    \/ call.op = "patch_psst" /\ ret.status = 204

\* C30: generate_bokeh(id), reached through its route or called by
\* put_processed or patch_psst, puts id on id_queue exactly when the session
\* exists and it has no SessionHtml row or the app runs in debug mode; for an
\* unknown session, and for a session with a SessionHtml row outside debug
\* mode, the queue is left as it was.
C30_EnqueuedIffNeeded ==
    [][Idle /\ BokehReached' =>
         IF /\ call'.id \in db'.Session
            /\ (call'.id \notin db'.SessionHtml \/ debug')
         THEN id_queue' = Append(id_queue, call'.id)
         ELSE id_queue' = id_queue]_vars

\* put_processed stored a session that has a SessionHtml row, outside debug
\* mode, and nothing was put on the queue
C30_Witness ==
    /\ call.op = "put_processed"
    /\ ret.status = 201
    /\ call.id \in db.SessionHtml
    /\ ~debug
    /\ puts = <<>>

\* in debug mode the route enqueued a session that has a SessionHtml row
C30_DebugWitness ==
    /\ call.op = "generate_bokeh"
    /\ ret.status = 202
    /\ call.id \in db.SessionHtml
    /\ debug
    /\ puts = <<call.id>>
====
